---- MODULE Spec2Model ----
(***************************************************************************)
(* A model of percolate_bq_upload:                                         *)
(*   - ts_utils.py: the transport wrappers get_object, post_object,        *)
(*     put_object and delete_object (one loop iteration per step);         *)
(*   - campaign_export.py: handle_bigquery_update_with_retries,            *)
(*     CSVCampaignExport.get_export, finalize_df, stream_to_bq and         *)
(*     delete_if_exists_bq;                                                *)
(*   - metadata_updater.py: MetadataUpdater.update, update_metadata and    *)
(*     update_custom_metadata.                                             *)
(* Each part has its own specification over the shared variables; the      *)
(* variables of the other parts stay at their initial values.              *)
(***************************************************************************)
EXTENDS Integers, Sequences, FiniteSets, TLC

VARIABLES
    \* ---- transport wrapper (ts_utils.py) ----
    method,      \* which wrapper runs: "GET", "POST", "PUT", "DELETE"
    retry,       \* the local `retry`
    result,      \* the local `result`: None, a parsed body, or a status code
    tstate,      \* "loop" (in the while), "after" (past it), "returned", "raised"
    texc,        \* the exception the call ended with ("none" if none)
    tret,        \* what the call returned ("none" until it returns)
    targs,       \* the arguments of the PercolateAPIError the call raised
    requests,    \* requests sent by this call
    n429,        \* of these, the number answered 429
    last,        \* the outcome of the last request sent
    slept,       \* seconds slept by the last loop iteration
    prevRetry,   \* `retry` before the last loop iteration
    \* ---- export driver and warehouse load (campaign_export.py) ----
    all_campaigns,       \* campaign ids as enumerated (after the `since` filter)
    bq_clear_on_update,  \* the constructor's flag
    out_dir,             \* TRUE: write the CSV file; FALSE: return the rows
    epc,                 \* where get_export stands
    all_data_dicts,      \* the rows built so far (each stands for its campaign id)
    df,                  \* the frame handed to stream_to_bq: <<id, timestamp>> rows
    today,               \* the run date, datetime.today()
    runs,                \* exports started so far
    table,               \* the warehouse table: row -> number of copies
    sent,                \* rows passed to insert_rows by this export
    csv_rows,            \* data rows written to the CSV file by this export
    returned,            \* rows returned to the caller by this export
    eexc,                \* the exception get_export ended with
    retries,             \* func_wrapper's local `retries`
    calls,               \* invocations of the wrapped function in this export
    wlast,               \* how the last invocation of the wrapped function ended
    wslept,              \* seconds slept by func_wrapper after that invocation
    campaign_data,       \* the server's budget and custom metadata of a campaign
    all_data_headers,    \* the local `all_data_headers`
    df_columns,          \* the columns of the frame built from the rows
    df_budget,           \* the Budget column of the finalized frame
    out_header,          \* the header written to the CSV file or returned
    \* ---- MetadataUpdater.update (metadata_updater.py) ----
    standard,            \* the argument `standard`
    custom,              \* the argument `custom`
    isAsset,             \* object_uid.startswith('asset:')
    hasKeys,             \* metadata_dict holds the standard keys update_metadata reads
    tagsLeft,            \* tags of metadata_dict['Tags'] still to create as terms
    usage,               \* 'Add Usage Rights Information' is set and is not a "no"
    exAsset,             \* the object has an Asset Metadata record
    exUsage,             \* the object has a Usage Rights record
    exCustom,            \* schema ids of the object's custom records, in server order
    new_metadata,        \* schema ids _create_metadata returns, in insertion order
    upc,                 \* where update stands
    payloads,            \* schema ids update_custom_metadata still has to visit
    writes,              \* metadata PUTs and POSTs of this call that succeeded
    termPosts,           \* term-creation POSTs of this call that succeeded
    uret,                \* what update returned: "none", "True" or "False"
    uexc,                \* the exception that left update ("none" if none)
    failedIn,            \* the step whose exception ended the try block
    writesAtFail,        \* Len(writes) when that exception was raised
    new_fields,          \* new_metadata[schema_id]: the translated fields
    existing_ext,        \* the `ext` of the object's custom records, as fetched
    sent_payloads,       \* update_custom_metadata's PUTs and POSTs that succeeded
    object_type,         \* object_uid.split(':', 1)[0]
    metadata_keys,       \* the keys of metadata_dict, in order
    \* ---- get_all_objects (ts_utils.py) ----
    server_list,         \* the records of the list endpoint, in server order
    list_changed,        \* the server's list changed since the call began
    page_limit,          \* the argument `page_limit`
    params,              \* the argument `params`, a dict
    offset,              \* the local `offset`
    total,               \* the local `total`
    completed,           \* the local `completed`
    gao_result,          \* the local `result` of get_all_objects
    sent_params,         \* the url_params of the requests made, in order
    totals,              \* the totals the pages reported, in order
    gpc,                 \* where get_all_objects stands
    gexc,                \* the exception that left get_all_objects
    \* ---- field translation and taxonomy index (metadata_updater.py) ----
    xpc,                 \* which translation runs and where it stands
    field_values,        \* key_info['ext']['values'] of a multi-select field
    new_value,           \* the input value of the field, a string
    created_value,       \* create_custom_metadata's result[key]
    metadata_value,      \* _create_metadata's all_new_metadata[schema][key]
    all_nodes,           \* the term nodes of a taxonomy, as the server lists them
    id_for_path,         \* the index _create_taxonomy_dict returns
    looked_up,           \* the node whose breadcrumb is resolved
    term_value,          \* the new_value the term branch computes for it
    field_type,          \* key_info['type'] of the field translated
    no_value,            \* TRUE: the input value of the field is None
    tag_path_terms,      \* the argument `tag_path_terms`
    \* ---- forward translation and the term caches (metadata_updater.py) ----
    fpc,                 \* how far the operations on the updater have got
    remote_nodes,        \* the taxonomy on the server when the updater was built
    taxonomies,          \* self.taxonomies[root_id], built by the constructor
    name_for_term,       \* self.name_for_term
    full_path_for_term,  \* self.full_path_for_term
    f_op,                \* the last operation, its input and the server's answers
    f_result,            \* what the last operation returned
    \* ---- schema cache and merge_metadata (metadata_updater.py) ----
    spc,                 \* "idle", or "ready" for the next operation
    schemas_cache,       \* the keys of self.schemas_cache
    listed,              \* the schema ids the constructor's listing returned
    schema_gets,         \* schema id -> calls of get_object('/v5/schema/<id>')
    schema_answered,     \* schema id -> those of the calls that returned
    source_md,           \* the source object's record of the merged schema
    target_md,           \* the target object's record of the merged schema
    m_op,                \* the last operation and what it read
    m_requests,          \* the requests the last operation sent, in order
    prev_put,            \* the ids per field in the PUT of the last merge but one
    last_put,            \* the ids per field in the PUT of the last merge
    \* ---- _prepare_tags over update_metadata calls (metadata_updater.py) ----
    kpc,                 \* "idle", or "ready" for the next call
    tag_cache,           \* self.tag_cache
    term_posts,          \* tag name -> POSTs to /v5/term/ sent with that name
    term_answered,       \* tag name -> those of the POSTs that returned an id
    tags_list,           \* the argument of _prepare_tags in the last call
    term_ids,            \* what _prepare_tags returned in the last call
    k_raised             \* the step of the last call that raised ("none" if none)

tvars == <<method, retry, result, tstate, texc, tret, targs, requests, n429,
           last, slept, prevRetry>>

evars == <<all_campaigns, bq_clear_on_update, out_dir, epc, all_data_dicts, df,
           today, runs, table, sent, csv_rows, returned, eexc, retries, calls,
           wlast, wslept, campaign_data, all_data_headers, df_columns,
           df_budget, out_header>>

uvars == <<standard, custom, isAsset, hasKeys, tagsLeft, usage, exAsset,
           exUsage, exCustom, new_metadata, upc, payloads, writes, termPosts,
           uret, uexc, failedIn, writesAtFail, new_fields, existing_ext,
           sent_payloads, object_type, metadata_keys>>

gvars == <<server_list, list_changed, page_limit, params, offset, total,
           completed, gao_result, sent_params, totals, gpc, gexc>>

xvars == <<xpc, field_values, new_value, created_value, metadata_value,
           all_nodes, id_for_path, looked_up, term_value, field_type,
           no_value, tag_path_terms>>

fvars == <<fpc, remote_nodes, taxonomies, name_for_term, full_path_for_term,
           f_op, f_result>>

svars == <<spc, schemas_cache, listed, schema_gets, schema_answered,
           source_md, target_md, m_op, m_requests, prev_put, last_put>>

kvars == <<kpc, tag_cache, term_posts, term_answered, tags_list, term_ids,
           k_raised>>

vars == <<tvars, evars, uvars, gvars, xvars, fvars, svars, kvars>>

-----------------------------------------------------------------------------
(* Bounds of the model *)

\* 429 answers the server gives within one call
Max429 == 2

\* campaign lists of up to this length are enumerated in every order
MaxSmall == 3
\* lists of up to this length have campaigns with budgets and custom
\* metadata of every kind
MaxRich == 2
\* exports run one after the other on the same CSVCampaignExport
MaxRuns == 2
\* days the runs may fall on
MaxDay == 2
\* tags of one update that have no term yet
MaxTags == 1
\* records the paged list endpoint holds at most
MaxRecords == 3
\* the largest page_limit (and `limit` in the caller's params)
MaxLimit == 2
\* the longest input string of a multi-select field
MaxLen == 5
\* the term nodes of a taxonomy, its root apart
MaxNodes == 3
\* the term nodes of the taxonomy of a term field, its root apart
MaxTermNodes == 2
\* the most breadcrumbs, or asset tokens, in the input value of a field
MaxCrumbs == 2
\* the most term ids in the value of a term field
MaxTerms == 2
\* the most calls of get_object for one schema id
MaxGets == 2
\* the most keys of metadata_dict
MaxLabels == 2
\* the most tags of metadata_dict['Tags'] over a sequence of calls
MaxTagList == 2
\* the most POSTs to /v5/term/ with one name
MaxPosts == 2

(* Program constants *)

\* `if len(all_data_rows) % 300 == 0`
PROGRESS_EVERY == 300
\* CSVCampaignExport.BQ_CHUNK_SIZE
BQ_CHUNK_SIZE == 1000
\* handle_bigquery_update_with_retries: TIMEOUT
TIMEOUT == 5
\* handle_bigquery_update_with_retries: MAX_RETRIES
MAX_RETRIES == 20

\* `while retry < 10`
MAX_ATTEMPTS == 10
\* `if retry == 9: raise`
LAST_RETRY == 9
\* `time.sleep(1)` after a retried error
RETRY_SLEEP == 1
\* `time.sleep(60)` after a 429
RATE_LIMIT_SLEEP == 60

-----------------------------------------------------------------------------
(* The server and the network, as seen by one request *)

Methods == {"GET", "POST", "PUT", "DELETE"}

\* Status codes: success, no content, client errors, rate limit, server errors
Statuses == {200, 204, 400, 404, 429, 500, 502}

\* What response.json() finds: a dict with `data`, a dict with neither `data`
\* nor `errors`, a dict with `errors`, or a body that is not JSON
Bodies == {"data", "plain", "errors", "nojson"}

\* requests raised ConnectionError / Timeout: there is no response
NetErr == [kind |-> "neterr", status |-> 0, body |-> "nojson"]

Outcomes ==
    {NetErr} \cup [kind : {"http"}, status : Statuses, body : Bodies]

NoRequest == [kind |-> "norequest", status |-> 0, body |-> "nojson"]

\* Python values of the local `result`
None == [kind |-> "None", body |-> "nojson", status |-> 0]
ParsedBody(b) == [kind |-> "body", body |-> b, status |-> 0]
StatusCode(s) == [kind |-> "status", body |-> "nojson", status |-> s]

-----------------------------------------------------------------------------
(* One iteration of `while retry < 10`, as a function of the request's     *)
(* outcome.  The record says where the call stands after the iteration.    *)

Step(st, exc, r, res, sl) ==
    [state |-> st, exc |-> exc, retry |-> r, result |-> res, slept |-> sl]

\* `retry += 1` at the foot of the loop, then the loop test
NextTry(r, res, sl) ==
    Step(IF r + 1 < MAX_ATTEMPTS THEN "loop" ELSE "after", "none", r + 1, res, sl)

OnRetriedError_NoReraise(r, res, exc) == NextTry(r, res, RETRY_SLEEP)

\* the last `except (RequestException, ValueError, ...)` clause:
\* re-raise on the last retry, else sleep 1s and count the retry
OnRetriedError(r, res, exc) ==
    IF r = LAST_RETRY
        THEN Step("raised", exc, r, res, 0)
        ELSE NextTry(r, res, RETRY_SLEEP)

OnHTTPError_429Counts(r, res, status) ==
    IF 400 <= status /\ status < 500
        THEN IF status = 429
                THEN NextTry(r, res, RATE_LIMIT_SLEEP)
                ELSE Step("raised", "PercolateAPIError", r, res, 0)
        ELSE NextTry(r, res, 0)

\* the `except HTTPError` clause: 429 sleeps 60s and continues without
\* counting, another 4xx raises PercolateAPIError, a 5xx falls through to
\* `retry += 1` with no sleep
OnHTTPError(r, res, status) ==
    IF 400 <= status /\ status < 500
        THEN IF status = 429
                THEN Step("loop", "none", r, res, RATE_LIMIT_SLEEP)
                ELSE Step("raised", "PercolateAPIError", r, res, 0)
        ELSE NextTry(r, res, 0)

\* response.raise_for_status() raises HTTPError for 4xx and 5xx
RaisesForStatus(status) == 400 <= status /\ status < 600

GetAttempt_DecodeErrorRaises(r, res, o) ==
    IF o.kind = "neterr" THEN OnRetriedError(r, res, "ConnectionError")
    ELSE IF RaisesForStatus(o.status) THEN OnHTTPError(r, res, o.status)
    ELSE IF o.body = "nojson" THEN Step("raised", "PercolateAPIError", r, res, 0)
    ELSE Step("after", "none", r, ParsedBody(o.body), 0)

\* get_object: raise_for_status() comes before response.json(); a body that
\* does not decode raises ValueError, handled by the last except clause
GetAttempt(r, res, o) ==
    IF o.kind = "neterr" THEN OnRetriedError(r, res, "ConnectionError")
    ELSE IF RaisesForStatus(o.status) THEN OnHTTPError(r, res, o.status)
    ELSE IF o.body = "nojson" THEN OnRetriedError(r, res, "JSONDecodeError")
    ELSE Step("after", "none", r, ParsedBody(o.body), 0)

\* post_object: response.json() comes before raise_for_status().  The
\* decode error is the standard library's json.decoder.JSONDecodeError (or
\* requests' subclass of it), which the clause below names.  The
\* `except json.decoder.JSONDecodeError` clause reads json_error.response
\* .status_code, and a JSONDecodeError carries no response (the attribute is
\* missing, or None when requests raises its own subclass): AttributeError
PostAttempt(r, res, o) ==
    IF o.kind = "neterr" THEN OnRetriedError(r, res, "ConnectionError")
    ELSE IF o.body = "nojson" THEN Step("raised", "AttributeError", r, res, 0)
    ELSE IF RaisesForStatus(o.status)
        THEN OnHTTPError(r, ParsedBody(o.body), o.status)
    ELSE Step("after", "none", r, ParsedBody(o.body), 0)

\* put_object: as post_object, but the JSONDecodeError clause raises
\* PercolateAPIError at once
PutAttempt(r, res, o) ==
    IF o.kind = "neterr" THEN OnRetriedError(r, res, "ConnectionError")
    ELSE IF o.body = "nojson" THEN Step("raised", "PercolateAPIError", r, res, 0)
    ELSE IF RaisesForStatus(o.status)
        THEN OnHTTPError(r, ParsedBody(o.body), o.status)
    ELSE Step("after", "none", r, ParsedBody(o.body), 0)

\* delete_object: result is the status code, the body is not parsed
DeleteAttempt(r, res, o) ==
    IF o.kind = "neterr" THEN OnRetriedError(r, res, "ConnectionError")
    ELSE IF RaisesForStatus(o.status)
        THEN OnHTTPError(r, StatusCode(o.status), o.status)
    ELSE Step("after", "none", r, StatusCode(o.status), 0)

Attempt(m, r, res, o) ==
    CASE m = "GET" -> GetAttempt(r, res, o)
      [] m = "POST" -> PostAttempt(r, res, o)
      [] m = "PUT" -> PutAttempt(r, res, o)
      [] OTHER -> DeleteAttempt(r, res, o)

-----------------------------------------------------------------------------
(* The code after the loop.  [state, exc, ret]                             *)

\* the request's parameters as the wrapper names them
ParamsName(m) == IF m = "GET" THEN "url_params" ELSE "data"

\* raise PercolateAPIError(status_code, result, api_url, <params>, headers)
\* inside the loop
LoopErrorArgs(m) ==
    IF m = "DELETE"
        THEN <<"status_code", "result", "api_url", "{}", "headers">>
        ELSE <<"status_code", "result", "api_url", ParamsName(m), "headers">>

\* raise PercolateAPIError(result, api_url, <params>, headers) after the loop
AfterErrorArgs(m) ==
    IF m = "DELETE"
        THEN <<"result", "api_url", "headers">>
        ELSE <<"result", "api_url", ParamsName(m), "headers">>

End(st, exc, ret) == [state |-> st, exc |-> exc, ret |-> ret]

\* `'errors' in result` on None raises TypeError
ErrorsCheck_ErrorsIgnored(res, ret) ==
    IF res.kind = "None" THEN End("raised", "TypeError", "none")
    ELSE End("returned", "none", ret)

ErrorsCheck(res, ret) ==
    IF res.kind = "None" THEN End("raised", "TypeError", "none")
    ELSE IF res.body = "errors" THEN End("raised", "PercolateAPIError", "none")
    ELSE End("returned", "none", ret)

GetAfter(res) == ErrorsCheck(res, "result")

PostAfter(res) ==
    ErrorsCheck(res, IF res.body = "data" THEN "result['data']" ELSE "result")

PutAfter(res) == ErrorsCheck(res, "result")

DeleteAfter(res) ==
    IF res.kind = "status" /\ res.status = 204
        THEN End("returned", "none", "True")
        ELSE End("raised", "PercolateAPIError", "none")

After(m, res) ==
    CASE m = "GET" -> GetAfter(res)
      [] m = "POST" -> PostAfter(res)
      [] m = "PUT" -> PutAfter(res)
      [] OTHER -> DeleteAfter(res)

-----------------------------------------------------------------------------
(* The transport call as a state machine *)

TransportIdle ==
    /\ method = "GET" /\ retry = 0 /\ result = None /\ tstate = "idle"
    /\ texc = "none" /\ tret = "none" /\ targs = <<>>
    /\ requests = 0 /\ n429 = 0
    /\ last = NoRequest /\ slept = 0 /\ prevRetry = 0

TransportStart ==
    /\ method \in Methods
    /\ retry = 0
    /\ result = None
    /\ tstate = "loop"
    /\ texc = "none"
    /\ tret = "none"
    /\ targs = <<>>
    /\ requests = 0
    /\ n429 = 0
    /\ last = NoRequest
    /\ slept = 0
    /\ prevRetry = 0

\* one iteration of the while loop: send the request, handle its outcome
TAttempt ==
    /\ tstate = "loop"
    /\ \E o \in Outcomes :
        /\ o.status = 429 => n429 < Max429
        /\ LET s == Attempt(method, retry, result, o) IN
            /\ retry' = s.retry
            /\ result' = s.result
            /\ tstate' = s.state
            /\ texc' = s.exc
            /\ targs' = IF s.exc = "PercolateAPIError"
                            THEN LoopErrorArgs(method) ELSE <<>>
            /\ slept' = s.slept
        /\ last' = o
        /\ n429' = IF o.status = 429 THEN n429 + 1 ELSE n429
    /\ requests' = requests + 1
    /\ prevRetry' = retry
    /\ UNCHANGED <<method, tret, evars, uvars, gvars, xvars, fvars, svars, kvars>>

\* the statements after the loop
TAfter ==
    /\ tstate = "after"
    /\ LET e == After(method, result) IN
        /\ tstate' = e.state
        /\ texc' = e.exc
        /\ tret' = e.ret
        /\ targs' = IF e.exc = "PercolateAPIError"
                        THEN AfterErrorArgs(method) ELSE <<>>
    /\ UNCHANGED <<method, retry, result, requests, n429, last, slept, prevRetry>>
    /\ UNCHANGED <<evars, uvars, gvars, xvars, fvars, svars, kvars>>

TNext == TAttempt \/ TAfter

-----------------------------------------------------------------------------
(* The export driver: CSVCampaignExport.get_export *)

Range(f) == {f[i] : i \in DOMAIN f}

Min(a, b) == IF a < b THEN a ELSE b

\* the orders in which the server may list n campaigns; a campaign stands
\* for its id, the ids are 1..n
Orders(n) ==
    {f \in [1..n -> 1..n] : \A i, j \in 1..n : i # j => f[i] # f[j]}

\* a long list, newest campaign first
Descending(n) == [i \in 1..n |-> n + 1 - i]

CampaignLists ==
    UNION {Orders(n) : n \in 0..MaxSmall}
        \cup {Descending(n) : n \in {PROGRESS_EVERY, PROGRESS_EVERY + 1}}

-----------------------------------------------------------------------------
(* Strings are sequences of characters.  The formatting of a campaign's    *)
(* budget and its conversion for the warehouse                             *)

DigitChars == <<"0", "1", "2", "3", "4", "5", "6", "7", "8", "9">>

IsDigit(ch) == \E i \in DOMAIN DigitChars : DigitChars[i] = ch

DigitValue(ch) == (CHOOSE i \in DOMAIN DigitChars : DigitChars[i] = ch) - 1

\* str(n) for a natural number n
RECURSIVE Decimal(_)
Decimal(n) ==
    IF n < 10 THEN <<DigitChars[n + 1]>>
    ELSE Append(Decimal(n \div 10), DigitChars[(n % 10) + 1])

\* int(s) for a string of digits
RECURSIVE DigitsValue(_)
DigitsValue(s) ==
    IF s = <<>> THEN 0
    ELSE 10 * DigitsValue(SubSeq(s, 1, Len(s) - 1)) + DigitValue(s[Len(s)])

\* the position of the first `.` of s, 0 if there is none
DotAt(s) ==
    IF \E i \in DOMAIN s : s[i] = "."
        THEN CHOOSE i \in DOMAIN s : s[i] = "." /\ \A j \in 1..(i - 1) : s[j] # "."
        ELSE 0

\* Python's ordering of strings whose characters are digits: by the first
\* position that differs, a proper prefix first
RECURSIVE StrLess(_, _)
StrLess(a, b) ==
    IF b = <<>> THEN FALSE
    ELSE IF a = <<>> THEN TRUE
    ELSE IF Head(a) # Head(b) THEN DigitValue(Head(a)) < DigitValue(Head(b))
    ELSE StrLess(Tail(a), Tail(b))

\* s.rstrip(chars): the trailing characters that are in chars are removed
RECURSIVE RStrip(_, _)
RStrip(s, chars) ==
    IF s # <<>> /\ s[Len(s)] \in chars
        THEN RStrip(SubSeq(s, 1, Len(s) - 1), chars)
        ELSE s

\* the characters of '00 GBP'
BudgetStripChars == {"0", " ", "G", "B", "P"}

ValueError == [type |-> "ValueError"]
PyNone == [type |-> "NoneType"]
PyStr(s) == [type |-> "str", chars |-> s]
\* a float, held in hundredths
PyFloat(h) == [type |-> "float", hundredths |-> h]

\* float(s) for the strings met here: digits with at most one `.` and up to
\* two digits after it is a number, anything else raises ValueError
Float(s) ==
    LET dot == DotAt(s)
        whole == IF dot = 0 THEN s ELSE SubSeq(s, 1, dot - 1)
        frac == IF dot = 0 THEN <<>> ELSE SubSeq(s, dot + 1, Len(s))
    IN  IF /\ \A i \in DOMAIN whole : IsDigit(whole[i])
           /\ \A i \in DOMAIN frac : IsDigit(frac[i])
           /\ Len(whole) + Len(frac) > 0
           /\ Len(frac) <= 2
        THEN PyFloat(100 * DigitsValue(whole)
                        + (IF Len(frac) = 1 THEN 10 * DigitsValue(frac)
                           ELSE DigitsValue(frac)))
        ELSE ValueError

\* '{0:.2f}'.format(h / 100)
TwoDecimals(h) ==
    Decimal(h \div 100) \o <<".">> \o Decimal((h % 100) \div 10)
        \o Decimal(h % 10)

\* a budget object of the API: the amount in whole units and the currency
Budget(amount, currency) == [amount |-> amount, currency |-> currency]

\* _format_budget: None stays None, a USD amount is written with two
\* decimals, any other as '<amount> <currency>'
_format_budget(input_obj) ==
    IF input_obj = PyNone THEN PyNone
    ELSE IF input_obj.currency = <<"U", "S", "D">>
        THEN PyStr(TwoDecimals(100 * input_obj.amount))
    ELSE PyStr(Decimal(input_obj.amount) \o <<" ">> \o input_obj.currency)

\* finalize_df: `float(x.rstrip('00 GBP')) if type(x) is str else x`
FinalBudget(x) ==
    IF x.type = "str" THEN Float(RStrip(x.chars, BudgetStripChars)) ELSE x

\* Python values of func_wrapper's `retries`
PyInt(v) == [type |-> "int", val |-> v]
PyTuple1(v) == [type |-> "tuple", val |-> v]

\* `retries = 0,` binds the one-element tuple (0,)
InitialRetries == PyTuple1(0)

EmptyTable == [r \in {} |-> 0]

\* self.header
header ==
    <<"Title", "Description", "License ID", "Start At", "End At", "Platforms",
      "Budget", "Campaign ID", "Parent Campaign ID", "Terms", "Topics",
      "Thumbnail Asset", "Created At", "Updated At">>

\* self.header_for: the label of each field of self.field_type, in its order
header_for ==
    <<"Campaign ID", "Title", "Description", "Terms", "Topics", "License ID",
      "Start At", "End At", "Platforms", "Budget", "Thumbnail Asset",
      "Created At", "Updated At", "Parent Campaign ID">>

USD == <<"U", "S", "D">>
GBP == <<"G", "B", "P">>
EUR == <<"E", "U", "R">>

\* what the server holds for a campaign: its budget object and the labels
\* get_custom_metadata(with_schema_name=True) returns for it, in order
CampaignData(b, md) == [budget |-> b, md |-> md]

Plain == CampaignData(PyNone, <<>>)

Profiles ==
    {Plain,
     CampaignData(Budget(1500, USD), <<"Brief: Goal">>),
     CampaignData(Budget(1500, GBP),
                  <<"Topics: Topics", "Brief: Audience", "Brief: Goal">>),
     CampaignData(Budget(25, EUR), <<"Brief: Audience">>)}

\* the campaigns of a short list have data of any kind, those of a long
\* list have no budget and no custom metadata
DataChoices(campaigns) ==
    IF Len(campaigns) <= MaxRich
        THEN [1..Len(campaigns) -> Profiles]
        ELSE {[c \in {} |-> Plain]}

DataOf(c) == IF c \in DOMAIN campaign_data THEN campaign_data[c] ELSE Plain

\* camp_md.pop('Topics: Topics', None)
camp_md(c) == SelectSeq(DataOf(c).md, LAMBDA l : l # "Topics: Topics")

\* the keys of the row dict of campaign c: data_dict[self.header_for[...]]
\* for every field, then data_dict.update(camp_md)
RowKeys(c) == Range(header_for) \cup Range(camp_md(c))

AppendNew_All(h, labels) == h \o labels

\* `for md_label in camp_md.keys(): if md_label not in all_data_headers:
\* all_data_headers.append(md_label)`
RECURSIVE AppendNew(_, _)
AppendNew(h, labels) ==
    IF labels = <<>> THEN h
    ELSE AppendNew(IF Head(labels) \in Range(h) THEN h ELSE Append(h, Head(labels)),
                   Tail(labels))

ExportIdle ==
    /\ all_campaigns = <<>> /\ bq_clear_on_update = TRUE /\ out_dir = FALSE
    /\ epc = "idle" /\ all_data_dicts = <<>> /\ df = <<>> /\ today = 1
    /\ runs = 0 /\ table = EmptyTable /\ sent = <<>> /\ csv_rows = <<>>
    /\ returned = <<>> /\ eexc = "none" /\ retries = InitialRetries
    /\ calls = 0 /\ wlast = "none" /\ wslept = 0
    /\ campaign_data = [c \in {} |-> Plain] /\ all_data_headers = <<>>
    /\ df_columns = <<>> /\ df_budget = <<>> /\ out_header = <<>>

ExportStart ==
    /\ all_campaigns \in CampaignLists
    /\ bq_clear_on_update \in BOOLEAN
    /\ out_dir = FALSE
    /\ epc = "idle" /\ all_data_dicts = <<>> /\ df = <<>> /\ today = 1
    /\ runs = 0 /\ table = EmptyTable /\ sent = <<>> /\ csv_rows = <<>>
    /\ returned = <<>> /\ eexc = "none" /\ retries = InitialRetries
    /\ calls = 0 /\ wlast = "none" /\ wslept = 0
    /\ campaign_data \in DataChoices(all_campaigns) /\ all_data_headers = <<>>
    /\ df_columns = <<>> /\ df_budget = <<>> /\ out_header = <<>>

\* get_export is called: the campaigns are enumerated and filtered
EBegin ==
    /\ epc \in {"idle", "done", "raised"}
    /\ runs < MaxRuns
    /\ runs' = runs + 1
    /\ today' \in {d \in {today, today + 1} : d <= MaxDay}
    /\ out_dir' \in BOOLEAN
    /\ epc' = IF Len(all_campaigns) = 0 THEN "frame" ELSE "loop"
    /\ all_data_dicts' = <<>> /\ df' = <<>> /\ sent' = <<>>
    /\ csv_rows' = <<>> /\ returned' = <<>> /\ eexc' = "none"
    /\ retries' = InitialRetries /\ calls' = 0 /\ wlast' = "none" /\ wslept' = 0
    /\ all_data_headers' = header
    /\ df_columns' = <<>> /\ df_budget' = <<>> /\ out_header' = <<>>
    /\ UNCHANGED <<all_campaigns, bq_clear_on_update, table, campaign_data,
                   tvars, uvars, gvars, xvars, fvars, svars, kvars>>

\* the test at the foot of the loop body: `if len(all_data_rows) % 300 == 0:
\* print(...); break`
BreaksAfter(n) == n % PROGRESS_EVERY = 0

\* one pass of `for campaign in all_campaigns`: the row of the next campaign
\* is built and appended
ELoopRow ==
    /\ epc = "loop"
    /\ LET rows == Append(all_data_dicts, all_campaigns[Len(all_data_dicts) + 1]) IN
        /\ all_data_dicts' = rows
        /\ all_data_headers' =
              AppendNew(all_data_headers, camp_md(rows[Len(rows)]))
        /\ epc' = IF BreaksAfter(Len(rows)) \/ Len(rows) = Len(all_campaigns)
                    THEN "frame" ELSE "loop"
    /\ UNCHANGED <<all_campaigns, bq_clear_on_update, out_dir, df, today, runs,
                   table, sent, csv_rows, returned, eexc, retries, calls, wlast,
                   wslept, tvars, uvars, gvars, xvars, fvars, svars, kvars>>
    /\ UNCHANGED <<campaign_data, df_columns, df_budget, out_header>>

\* a lookup made while formatting a row fails: the error leaves get_export
ELoopRowFails ==
    /\ epc = "loop"
    /\ epc' = "raised"
    /\ eexc' = "PercolateAPIError"
    /\ UNCHANGED <<all_campaigns, bq_clear_on_update, out_dir, all_data_dicts,
                   df, today, runs, table, sent, csv_rows, returned, retries,
                   calls, wlast, wslept, tvars, uvars, gvars, xvars, fvars, svars, kvars>>
    /\ UNCHANGED <<campaign_data, all_data_headers, df_columns, df_budget,
                   out_header>>

\* campaign['id'] without its `campaign:` prefix: the id is a string
CampaignId(c) == Decimal(c)

SortById_AsEnumerated(rows) == rows

\* all_data_dicts.sort(key=lambda x: x['Campaign ID']): the keys are
\* strings and are compared as strings
SortById(rows) ==
    SortSeq(rows, LAMBDA a, b : StrLess(CampaignId(a), CampaignId(b)))

\* the Budget column after finalize_df's map
BudgetColumn(rows) ==
    [i \in 1..Len(rows) |-> FinalBudget(_format_budget(DataOf(rows[i]).budget))]

\* finalize_df: every row gets the run date in a `timestamp` column
finalize_df(rows, day) == [i \in 1..Len(rows) |-> <<rows[i], day>>]

\* the rows are sorted, the frame is built and finalized, stream_to_bq starts
EFrame ==
    /\ epc = "frame"
    /\ all_data_dicts' = SortById(all_data_dicts)
    /\ df_columns' = all_data_headers
    /\ LET budgets == BudgetColumn(all_data_dicts') IN
        IF \E i \in DOMAIN budgets : budgets[i] = ValueError
            THEN /\ epc' = "raised"
                 /\ eexc' = "ValueError"
                 /\ UNCHANGED <<df, df_budget>>
            ELSE /\ df' = finalize_df(all_data_dicts', today)
                 /\ df_budget' = budgets
                 /\ epc' = IF bq_clear_on_update THEN "clear" ELSE "insert"
                 /\ UNCHANGED eexc
    /\ UNCHANGED <<all_campaigns, bq_clear_on_update, out_dir, today, runs,
                   table, sent, csv_rows, returned, retries, calls, wlast,
                   wslept, tvars, uvars, gvars, xvars, fvars, svars, kvars>>
    /\ UNCHANGED <<campaign_data, all_data_headers, out_header>>

-----------------------------------------------------------------------------
(* The warehouse load: delete_if_exists_bq under                           *)
(* handle_bigquery_update_with_retries, then stream_to_bq's inserts        *)

\* delete_if_exists_bq: the (Campaign ID, timestamp) of df.iloc[0] is looked
\* up, and the rows with that pair are deleted if there are any
delete_if_exists_bq(d, t) ==
    IF Len(d) = 0 THEN t
    ELSE LET key == d[1] IN
         IF key \in DOMAIN t THEN [r \in DOMAIN t \ {key} |-> t[r]] ELSE t

\* how an invocation of delete_if_exists_bq can end: with no rows it returns
\* before any query; else either query may fail
BqOutcomes(d) ==
    IF Len(d) = 0 THEN {"ok"} ELSE {"ok", "streaming", "concurrent", "other"}

Handled(st, exc, rt, sl) == [state |-> st, exc |-> exc, retries |-> rt, slept |-> sl]

func_wrapper_except_StreamingRetried(rt, kind) ==
    IF kind \in {"streaming", "other"}
        THEN Handled("clear", "none", rt, TIMEOUT)
    ELSE IF rt.type # "int"
        THEN Handled("raised", "TypeError", rt, 0)
    ELSE IF rt.val < MAX_RETRIES
        THEN Handled("clear", "none", PyInt(rt.val + 1), (rt.val + 1) * TIMEOUT)
    ELSE Handled("raised", "BigQueryUpdateTooManyTriesException", rt, 0)

\* func_wrapper's except clause.  `retries < MAX_RETRIES` compares a tuple
\* with an int when retries is still the tuple bound at line 28: TypeError
func_wrapper_except(rt, kind) ==
    IF kind = "streaming"
        THEN Handled("raised", "BigQueryStreamingBufferException", rt, 0)
    ELSE IF kind = "concurrent"
        THEN IF rt.type # "int"
                THEN Handled("raised", "TypeError", rt, 0)
             ELSE IF rt.val < MAX_RETRIES
                THEN Handled("clear", "none", PyInt(rt.val + 1), (rt.val + 1) * TIMEOUT)
             ELSE Handled("raised", "BigQueryUpdateTooManyTriesException", rt, 0)
    ELSE Handled("raised", "OtherError", rt, 0)

\* one pass of func_wrapper's `while True`: delete_if_exists_bq is invoked
\* and returns, or raises and the except clause runs
EClear ==
    /\ epc = "clear"
    /\ calls' = calls + 1
    /\ \E o \in BqOutcomes(df) :
        /\ wlast' = o
        /\ IF o = "ok"
            THEN /\ table' = delete_if_exists_bq(df, table)
                 /\ epc' = "insert"
                 /\ wslept' = 0
                 /\ UNCHANGED <<retries, eexc>>
            ELSE LET h == func_wrapper_except(retries, o) IN
                 /\ epc' = h.state
                 /\ eexc' = h.exc
                 /\ retries' = h.retries
                 /\ wslept' = h.slept
                 /\ UNCHANGED table
    /\ UNCHANGED <<all_campaigns, bq_clear_on_update, out_dir, all_data_dicts,
                   df, today, runs, sent, csv_rows, returned, tvars, uvars, gvars, xvars, fvars, svars, kvars>>
    /\ UNCHANGED <<campaign_data, all_data_headers, df_columns, df_budget,
                   out_header>>

\* the table after insert_rows(chunk)
insert_rows(t, chunk) ==
    [r \in DOMAIN t \cup Range(chunk) |->
        (IF r \in DOMAIN t THEN t[r] ELSE 0)
            + Cardinality({i \in DOMAIN chunk : chunk[i] = r})]

\* iter_chunks: the chunk that starts after the first n rows
NextChunk(d, n) == SubSeq(d, n + 1, Min(n + BQ_CHUNK_SIZE, Len(d)))

\* one pass of `for chunk in iter_chunks(df)`: the chunk is inserted, or
\* insert_rows reports errors and BigQueryStreamingException is raised
EInsert ==
    /\ epc = "insert"
    /\ Len(sent) < Len(df)
    /\ LET chunk == NextChunk(df, Len(sent)) IN
        \/ /\ table' = insert_rows(table, chunk)
           /\ sent' = sent \o chunk
           /\ UNCHANGED <<epc, eexc>>
        \/ /\ epc' = "raised"
           /\ eexc' = "BigQueryStreamingException"
           /\ UNCHANGED <<table, sent>>
    /\ UNCHANGED <<all_campaigns, bq_clear_on_update, out_dir, all_data_dicts,
                   df, today, runs, csv_rows, returned, retries, calls, wlast,
                   wslept, tvars, uvars, gvars, xvars, fvars, svars, kvars>>
    /\ UNCHANGED <<campaign_data, all_data_headers, df_columns, df_budget,
                   out_header>>

\* the chunks are exhausted: the CSV file is written, or the header and the
\* rows are returned
EOutput ==
    /\ epc = "insert"
    /\ Len(sent) >= Len(df)
    /\ epc' = "done"
    /\ IF out_dir
        THEN csv_rows' = all_data_dicts /\ UNCHANGED returned
        ELSE returned' = all_data_dicts /\ UNCHANGED csv_rows
    /\ out_header' = all_data_headers
    /\ UNCHANGED <<all_campaigns, bq_clear_on_update, out_dir, all_data_dicts,
                   df, today, runs, table, sent, eexc, retries, calls, wlast,
                   wslept, tvars, uvars, gvars, xvars, fvars, svars, kvars>>
    /\ UNCHANGED <<campaign_data, all_data_headers, df_columns, df_budget>>

ENext == EBegin \/ ELoopRow \/ ELoopRowFails \/ EFrame \/ EClear \/ EInsert \/ EOutput

-----------------------------------------------------------------------------
(* MetadataUpdater.update, update_metadata and update_custom_metadata.   *)
(* A transport call is one step here; it ends in "ok" or in one of the     *)
(* exceptions the wrapper of that method can end with.                     *)

\* custom schema ids
Schemas == {"s1", "s2"}

\* lists of schema ids without repetition
SchemaLists ==
    {<<>>} \cup {<<x>> : x \in Schemas}
           \cup {p \in Schemas \X Schemas : p[1] # p[2]}

\* `class PercolateAPIError(BaseException)`: every other exception met here
\* derives from Exception
IsException(e) == e # "PercolateAPIError"

\* the exceptions a call of each wrapper can end with (see After, Attempt),
\* and KeyError for the caller's subscript of the returned value
GetRaises == {"PercolateAPIError", "TypeError", "ConnectionError", "JSONDecodeError", "KeyError"}
PostRaises == {"PercolateAPIError", "AttributeError", "ConnectionError"}
PutRaises == {"PercolateAPIError", "ConnectionError"}

CallOutcomes(m) ==
    {"ok"} \cup (CASE m = "GET" -> GetRaises
                   [] m = "POST" -> PostRaises
                   [] OTHER -> PutRaises)

\* `put_object(... m_id ...)` if the record exists, else `post_object`
WriteMethod(exists) == IF exists THEN "PUT" ELSE "POST"

\* update_custom_metadata's `payloads`: the existing custom records first,
\* then the schemas of new_metadata that have no record
PayloadOrder(ex, new) == ex \o SelectSeq(new, LAMBDA x : x \notin Range(ex))

CustomStep_NoSkip(sid, ex, new) ==
    IF sid \in Range(ex) THEN "PUT" ELSE "POST"

\* the body of `for schema_id, ext in payloads.items()`: an existing record
\* the input does not touch is skipped, an existing one is PUT, else POST
CustomStep(sid, ex, new) ==
    IF sid \in Range(ex)
        THEN IF sid \notin Range(new) THEN "skip" ELSE "PUT"
        ELSE "POST"

\* the keys of a custom schema's fields and the values an `ext` holds
FieldKeys == {"k1", "k2"}

\* the `ext` dicts a record can hold
OldExts == UNION {[ks -> {"old"}] : ks \in SUBSET FieldKeys}

NoExts == [x \in {} |-> <<>>]

\* self.object_types, three of its nine
object_types == {"asset", "campaign", "post"}

\* the object types an object_uid can start with: two recognised ones and
\* one that is not
UidTypes == {"asset", "campaign", "user"}

\* a field definition and a cached schema
Field(label, key) == [label |-> label, key |-> key]
Schema(id, types, fields) ==
    [id |-> id, limit_resource_types |-> types, fields |-> fields]

\* self.schemas_cache.values(): two schemas for assets and campaigns and
\* one for posts
CachedSchemas ==
    <<Schema("s1", {"asset", "campaign"}, <<Field("a1", "k1"), Field("a2", "k2")>>),
      Schema("s3", {"post"}, <<Field("o1", "k1")>>),
      Schema("s2", {"asset", "campaign"}, <<Field("b1", "k1")>>)>>

\* the keys metadata_dict can hold: labels of fields, and one that is the
\* label of no field
InputLabels == {"a1", "a2", "b1", "o1", "zz"}

\* metadata_dict's keys: lists of different labels
LabelLists ==
    {l \in UNION {[1..n -> InputLabels] : n \in 0..MaxLabels} :
        \A i, j \in DOMAIN l : l[i] = l[j] => i = j}

all_schema_ids_Unfiltered(type) ==
    {CachedSchemas[i].id : i \in DOMAIN CachedSchemas}

\* `[x['id'] for x in self.schemas_cache.values()
\*   if object_type in x['limit_resource_types']]`
all_schema_ids(type) ==
    {CachedSchemas[i].id : i \in {k \in DOMAIN CachedSchemas :
        type \in CachedSchemas[k].limit_resource_types}}

\* the lists of labels of one field of each schema of assets and campaigns
PlainLabelLists ==
    {l \in LabelLists : \A i \in DOMAIN l : l[i] \in {"a1", "b1"}}

\* info_for_field: the fields of the schemas of the object's type, each with
\* its schema_uid
info_for_field(type) ==
    UNION {{[label |-> CachedSchemas[i].fields[j].label,
             key |-> CachedSchemas[i].fields[j].key,
             schema_uid |-> CachedSchemas[i].id] :
                j \in DOMAIN CachedSchemas[i].fields} :
           i \in {k \in DOMAIN CachedSchemas :
                    CachedSchemas[k].id \in all_schema_ids(type)}}

\* info_for_field.get(key)
KeyInfo(type, label) == {f \in info_for_field(type) : f.label = label}

\* the loop of _create_metadata over metadata_dict.items(): a key without
\* key_info is passed over, any other sets
\* all_new_metadata[schema_uid][key_info['key']]
RECURSIVE AllNewMetadata(_, _, _)
AllNewMetadata(type, keys, acc) ==
    IF keys = <<>> THEN acc
    ELSE IF KeyInfo(type, Head(keys)) = {} THEN AllNewMetadata(type, Tail(keys), acc)
    ELSE LET f == CHOOSE x \in KeyInfo(type, Head(keys)) : TRUE
             sid == f.schema_uid
             old == IF sid \in DOMAIN acc.fields THEN acc.fields[sid] ELSE NoExts
             new == [k \in DOMAIN old \cup {f.key} |-> "new"]
         IN AllNewMetadata(type, Tail(keys),
               [order |-> IF sid \in Range(acc.order) THEN acc.order
                          ELSE Append(acc.order, sid),
                fields |-> [x \in DOMAIN acc.fields \cup {sid} |->
                               IF x = sid THEN new ELSE acc.fields[x]]])

\* _create_metadata(metadata_dict, object_uid): {} for an object type that
\* is not recognised, else the translated fields per schema
_create_metadata(type, keys) ==
    IF type \notin object_types
        THEN [order |-> <<>>, fields |-> NoExts]
        ELSE AllNewMetadata(type, keys, [order |-> <<>>, fields |-> NoExts])

\* metadata_id_for_schema[schema_id]
MetadataId(sid) == <<"metadata", sid>>

MergedExt_Replaced(old, new) == new

\* payloads[schema_id] = x['ext'], then payloads[schema_id][key] = new_value
\* for every new key
MergedExt(old, new) ==
    [k \in DOMAIN old \cup DOMAIN new |->
        IF k \in DOMAIN new THEN new[k] ELSE old[k]]

\* the ext of the payload built for schema sid
PayloadExt(sid, olds, news) ==
    IF sid \in DOMAIN olds
        THEN IF sid \in DOMAIN news
                THEN MergedExt(olds[sid], news[sid]) ELSE olds[sid]
        ELSE news[sid]

\* the request that carries the payload of schema sid
Payload(m, sid, ext) ==
    [method |-> m,
     url |-> IF m = "PUT" THEN MetadataId(sid) ELSE <<"metadata">>,
     schema_id |-> sid, ext |-> ext]

UpdateIdle ==
    /\ standard = TRUE /\ custom = TRUE /\ isAsset = TRUE /\ hasKeys = TRUE
    /\ tagsLeft = 0 /\ usage = FALSE /\ exAsset = FALSE /\ exUsage = FALSE
    /\ exCustom = <<>> /\ new_metadata = <<>> /\ upc = "idle"
    /\ payloads = <<>> /\ writes = <<>> /\ termPosts = 0 /\ uret = "none"
    /\ uexc = "none" /\ failedIn = "none" /\ writesAtFail = 0
    /\ new_fields = NoExts /\ existing_ext = NoExts /\ sent_payloads = <<>>
    /\ object_type = "asset" /\ metadata_keys = <<>>

\* update(object_uid, metadata_dict, standard, custom) is about to be called
UpdateStart ==
    /\ standard \in BOOLEAN /\ custom \in BOOLEAN
    /\ object_type \in UidTypes /\ isAsset = (object_type = "asset")
    /\ hasKeys \in BOOLEAN
    /\ tagsLeft \in 0..MaxTags
    /\ usage \in BOOLEAN /\ exAsset \in BOOLEAN /\ exUsage \in BOOLEAN
    /\ exCustom \in SchemaLists
    \* any list of labels for a call for the custom metadata alone, else the
    \* lists that name one field of a schema
    /\ metadata_keys \in
        IF ~standard /\ hasKeys /\ tagsLeft = 0 /\ ~usage /\ ~exAsset /\ ~exUsage
            THEN LabelLists ELSE PlainLabelLists
    /\ new_metadata = _create_metadata(object_type, metadata_keys).order
    /\ upc = "call"
    /\ payloads = <<>> /\ writes = <<>> /\ termPosts = 0 /\ uret = "none"
    /\ uexc = "none" /\ failedIn = "none" /\ writesAtFail = 0
    /\ new_fields = NoExts /\ existing_ext = NoExts /\ sent_payloads = <<>>

UInputs == <<standard, custom, isAsset, hasKeys, usage, exAsset, exUsage,
             exCustom, new_metadata, object_type, metadata_keys>>

\* where update goes once update_metadata is done or skipped
AfterStandard == IF custom THEN "uc_create" ELSE "return"

\* an exception e raised at step `at` inside the try block:
\* `except Exception` returns False, anything else leaves update
URaise(e, at) ==
    /\ failedIn' = at
    /\ writesAtFail' = Len(writes)
    /\ IF IsException(e)
        THEN upc' = "returned" /\ uret' = "False" /\ uexc' = "none"
        ELSE upc' = "propagated" /\ uret' = "none" /\ uexc' = e

\* the step ends well and update goes on at `next`
UGoOn(next) ==
    /\ upc' = next
    /\ UNCHANGED <<uret, uexc, failedIn, writesAtFail>>

\* update: the argument check before the try block, then the dispatch
UCall ==
    /\ upc = "call"
    /\ IF ~(standard \/ custom)
        THEN /\ upc' = "propagated" /\ uexc' = "ValueError"
             /\ UNCHANGED <<uret, failedIn, writesAtFail>>
        ELSE UGoOn(IF standard /\ isAsset THEN "um_get" ELSE AfterStandard)
    /\ UNCHANGED <<UInputs, tagsLeft, payloads, writes, termPosts, tvars, evars, gvars, xvars, fvars, svars, kvars>>
    /\ UNCHANGED <<new_fields, existing_ext, sent_payloads>>

\* update_metadata: the GET of the object's records, then the reads of
\* metadata_dict['Title'], ['Description'], ['Tags']
UmGet ==
    /\ upc = "um_get"
    /\ \E o \in CallOutcomes("GET") :
        IF o # "ok" THEN URaise(o, "um_get")
        ELSE IF ~hasKeys THEN URaise("KeyError", "um_get")
        ELSE UGoOn(IF tagsLeft > 0 THEN "um_tags" ELSE "um_asset")
    /\ UNCHANGED <<UInputs, tagsLeft, payloads, writes, termPosts, tvars, evars, gvars, xvars, fvars, svars, kvars>>
    /\ UNCHANGED <<new_fields, existing_ext, sent_payloads>>

\* _prepare_tags: the term of one tag is created by a POST to /v5/term/
UmTag ==
    /\ upc = "um_tags"
    /\ \E o \in CallOutcomes("POST") \cup {"KeyError"} :
        IF o # "ok"
            THEN URaise(o, "um_tags") /\ UNCHANGED <<tagsLeft, termPosts>>
            ELSE /\ tagsLeft' = tagsLeft - 1
                 /\ termPosts' = termPosts + 1
                 /\ UGoOn(IF tagsLeft' > 0 THEN "um_tags" ELSE "um_asset")
    /\ UNCHANGED <<UInputs, payloads, writes, tvars, evars, gvars, xvars, fvars, svars, kvars>>
    /\ UNCHANGED <<new_fields, existing_ext, sent_payloads>>

\* update_metadata: the Asset Metadata record is PUT or POSTed
UmAsset ==
    /\ upc = "um_asset"
    /\ LET m == WriteMethod(exAsset) IN
       \E o \in CallOutcomes(m) :
        IF o # "ok"
            THEN URaise(o, "um_asset") /\ UNCHANGED writes
            ELSE /\ writes' = Append(writes, <<m, "asset">>)
                 /\ UGoOn(IF usage THEN "um_usage" ELSE AfterStandard)
    /\ UNCHANGED <<UInputs, tagsLeft, payloads, termPosts, tvars, evars, gvars, xvars, fvars, svars, kvars>>
    /\ UNCHANGED <<new_fields, existing_ext, sent_payloads>>

\* update_metadata: the Usage Rights record is PUT or POSTed
UmUsage ==
    /\ upc = "um_usage"
    /\ LET m == WriteMethod(exUsage) IN
       \E o \in CallOutcomes(m) :
        IF o # "ok"
            THEN URaise(o, "um_usage") /\ UNCHANGED writes
            ELSE /\ writes' = Append(writes, <<m, "usage">>)
                 /\ UGoOn(AfterStandard)
    /\ UNCHANGED <<UInputs, tagsLeft, payloads, termPosts, tvars, evars, gvars, xvars, fvars, svars, kvars>>
    /\ UNCHANGED <<new_fields, existing_ext, sent_payloads>>

\* update_custom_metadata: _create_metadata translates the input (a value
\* of the wrong type raises inside it), then the object's records are fetched
UcCreate ==
    /\ upc = "uc_create"
    /\ \E o \in {"ok", "AttributeError"} :
        IF o # "ok"
            THEN /\ new_metadata # <<>>
                 /\ URaise(o, "uc_create") /\ UNCHANGED new_fields
            ELSE /\ new_fields' = _create_metadata(object_type, metadata_keys).fields
                 /\ UGoOn("uc_get")
    /\ UNCHANGED <<UInputs, tagsLeft, payloads, writes, termPosts, tvars, evars, gvars, xvars, fvars, svars, kvars>>
    /\ UNCHANGED <<existing_ext, sent_payloads>>

UcGet ==
    /\ upc = "uc_get"
    /\ \E o \in CallOutcomes("GET") :
        IF o # "ok"
            THEN URaise(o, "uc_get") /\ UNCHANGED <<payloads, existing_ext>>
            ELSE /\ existing_ext' \in [Range(exCustom) -> OldExts]
                 /\ payloads' = PayloadOrder(exCustom, new_metadata)
                 /\ UGoOn(IF payloads' = <<>> THEN "return" ELSE "uc_write")
    /\ UNCHANGED <<UInputs, tagsLeft, writes, termPosts, tvars, evars, gvars, xvars, fvars, svars, kvars>>
    /\ UNCHANGED <<new_fields, sent_payloads>>

\* one pass of `for schema_id, ext in payloads.items()`
UcWrite ==
    /\ upc = "uc_write"
    /\ LET sid == Head(payloads)
           m == CustomStep(sid, exCustom, new_metadata)
           next == IF Tail(payloads) = <<>> THEN "return" ELSE "uc_write"
       IN IF m = "skip"
            THEN /\ payloads' = Tail(payloads)
                 /\ UGoOn(next)
                 /\ UNCHANGED <<writes, sent_payloads>>
            ELSE \E o \in CallOutcomes(m) :
                   IF o # "ok"
                     THEN /\ URaise(o, "uc_write")
                          /\ UNCHANGED <<writes, payloads, sent_payloads>>
                     ELSE /\ writes' = Append(writes, <<m, sid>>)
                          /\ sent_payloads' =
                                Append(sent_payloads,
                                       Payload(m, sid, PayloadExt(sid, existing_ext,
                                                                  new_fields)))
                          /\ payloads' = Tail(payloads)
                          /\ UGoOn(next)
    /\ UNCHANGED <<UInputs, tagsLeft, termPosts, tvars, evars, gvars, xvars, fvars, svars, kvars>>
    /\ UNCHANGED <<new_fields, existing_ext>>

\* `return True` at the end of the try block
UReturn ==
    /\ upc = "return"
    /\ upc' = "returned"
    /\ uret' = "True"
    /\ UNCHANGED <<UInputs, tagsLeft, payloads, writes, termPosts, uexc,
                   failedIn, writesAtFail, tvars, evars, gvars, xvars, fvars, svars, kvars>>
    /\ UNCHANGED <<new_fields, existing_ext, sent_payloads>>

UNext ==
    UCall \/ UmGet \/ UmTag \/ UmAsset \/ UmUsage \/ UcCreate \/ UcGet
        \/ UcWrite \/ UReturn

-----------------------------------------------------------------------------
(* get_all_objects: the pages of a list endpoint, fetched by get_object *)

\* the keys a caller's params may hold: the pagination keys and a filter
ParamKeys == {"limit", "offset", "scope_ids"}

\* the dicts a caller may pass as params
ParamDicts ==
    UNION {[ks -> 0..MaxLimit] : ks \in SUBSET ParamKeys}

NoParams == [k \in {} |-> 0]

\* url_params = {'limit': limit, 'offset': offset}; url_params.update(params)
UrlParams(lim, off, ps) ==
    [k \in {"limit", "offset"} \cup DOMAIN ps |->
        IF k \in DOMAIN ps THEN ps[k]
        ELSE IF k = "limit" THEN lim ELSE off]

\* the server's answer to a request: json_data['data'] is the slice of the
\* list the sent limit and offset select
PageData(list, up) ==
    SubSeq(list, up["offset"] + 1, Min(up["offset"] + up["limit"], Len(list)))

\* json_data['pagination']['total'] (or json_data['meta']['total'])
PageTotal(list) == Len(list)

NewTotal_FirstPageOnly(old, reported, pagesBefore) ==
    IF pagesBefore = 0 THEN reported ELSE old

\* `total = json_data['pagination']['total']` in the body of the inner loop
NewTotal(old, reported, pagesBefore) == reported

\* the records 1..n in server order
Records(n) == [i \in 1..n |-> i]

PaginateIdle ==
    /\ server_list = <<>> /\ list_changed = FALSE /\ page_limit = 1
    /\ params = NoParams /\ offset = 0 /\ total = 0 /\ completed = FALSE
    /\ gao_result = <<>> /\ sent_params = <<>> /\ totals = <<>>
    /\ gpc = "idle" /\ gexc = "none"

\* get_all_objects(api_key, url, params, page_limit) is called; the lines
\* before the outer loop have run
PaginateStart ==
    /\ server_list \in {Records(n) : n \in 0..MaxRecords}
    /\ list_changed = FALSE
    /\ page_limit \in 0..MaxLimit
    /\ params \in ParamDicts
    /\ offset = 0 /\ total = 0 /\ completed = FALSE
    /\ gao_result = <<>> /\ sent_params = <<>> /\ totals = <<>>
    /\ gpc = "outer" /\ gexc = "none"

\* `while not completed:` and the three assignments that open its body,
\* then the test of the inner loop
GOuter ==
    /\ gpc = "outer"
    /\ IF completed
        THEN gpc' = "done" /\ UNCHANGED <<offset, total>>
        ELSE /\ offset' = 0
             /\ total' = page_limit
             /\ gpc' = IF offset' < total' THEN "page" ELSE "outer"
    /\ UNCHANGED <<server_list, list_changed, page_limit, params, completed,
                   gao_result, sent_params, totals, gexc, tvars, evars, uvars, xvars, fvars, svars, kvars>>

\* one pass of `while offset < total`: the page is requested and added
GPage ==
    /\ gpc = "page"
    /\ LET up == UrlParams(page_limit, offset, params) IN
        /\ sent_params' = Append(sent_params, up)
        /\ total' = NewTotal(total, PageTotal(server_list), Len(sent_params))
        /\ totals' = Append(totals, PageTotal(server_list))
        /\ gao_result' = gao_result \o PageData(server_list, up)
    /\ offset' = offset + page_limit
    /\ completed' = (completed \/ offset' >= total')
    /\ gpc' = IF offset' < total' THEN "page" ELSE "outer"
    /\ UNCHANGED <<server_list, list_changed, page_limit, params, gexc,
                   tvars, evars, uvars, xvars, fvars, svars, kvars>>

\* get_object raises (see After, Attempt), or the page has neither
\* `pagination` nor `meta`: the exception leaves get_all_objects
GPageFails ==
    /\ gpc = "page"
    /\ gexc' \in GetRaises
    /\ gpc' = "raised"
    /\ UNCHANGED <<server_list, list_changed, page_limit, params, offset, total,
                   completed, gao_result, sent_params, totals, tvars, evars,
                   uvars, xvars, fvars, svars, kvars>>

\* between two requests the server's list gains or loses its last record
GListChanges ==
    /\ gpc = "page"
    /\ sent_params # <<>>
    /\ \/ /\ Len(server_list) < MaxRecords
          /\ server_list' = Append(server_list, Len(server_list) + 1)
       \/ /\ Len(server_list) > 0
          /\ server_list' = SubSeq(server_list, 1, Len(server_list) - 1)
    /\ list_changed' = TRUE
    /\ UNCHANGED <<page_limit, params, offset, total, completed, gao_result,
                   sent_params, totals, gpc, gexc, tvars, evars, uvars, xvars, fvars, svars, kvars>>

GNext == GOuter \/ GPage \/ GPageFails \/ GListChanges

-----------------------------------------------------------------------------
(* Reverse translation of a multi-select field (create_custom_metadata and *)
(* _create_metadata) and the taxonomy index (_create_taxonomy_dict)        *)

\* s.split(sep) for a one-character sep: the segments between the
\* separators, empty ones included
RECURSIVE Split(_, _)
Split(s, sep) ==
    IF \A i \in DOMAIN s : s[i] # sep THEN <<s>>
    ELSE LET k == CHOOSE i \in DOMAIN s :
                    s[i] = sep /\ \A j \in 1..(i - 1) : s[j] # sep
         IN <<SubSeq(s, 1, k - 1)>> \o Split(SubSeq(s, k + 1, Len(s)), sep)

\* sep.join(parts)
RECURSIVE Join(_, _)
Join(parts, sep) ==
    IF parts = <<>> THEN <<>>
    ELSE IF Len(parts) = 1 THEN parts[1]
    ELSE parts[1] \o <<sep>> \o Join(Tail(parts), sep)

\* an option of a select field: {'label': ..., 'value': ...}
Option(l, v) == [label |-> l, value |-> v]

\* `for x in key_info['ext']['values']: value_for_label[x['label']] =
\* x['value']`: a label listed twice keeps its last value
value_for_label(values) ==
    [l \in {values[i].label : i \in DOMAIN values} |->
        values[CHOOSE i \in DOMAIN values :
                    /\ values[i].label = l
                    /\ \A j \in DOMAIN values : values[j].label = l => j <= i].value]

\* value_for_label.get(x): None for a missing key
DictGet(dict, x) == IF x \in DOMAIN dict THEN dict[x] ELSE PyNone

\* [f(x) for x in all_values if f(x) is not None]
RECURSIVE NotNone(_)
NotNone(vs) ==
    IF vs = <<>> THEN <<>>
    ELSE IF Head(vs) = PyNone THEN NotNone(Tail(vs))
    ELSE <<Head(vs)>> \o NotNone(Tail(vs))

CreateCustomMultiSelect_FirstOnly(value, values) ==
    LET segs == Split(value, "|")
        dict == value_for_label(values)
    IN NotNone(<<DictGet(dict, segs[1])>>)

\* create_custom_metadata, the multi-select branch
CreateCustomMultiSelect(value, values) ==
    LET all_values == Split(value, "|")
        dict == value_for_label(values)
    IN NotNone([i \in DOMAIN all_values |-> DictGet(dict, all_values[i])])

\* _create_metadata, the multi-select branch
CreateMetadataMultiSelect(value, values) ==
    LET all_values == Split(value, "|")
        dict == value_for_label(values)
    IN NotNone([i \in DOMAIN all_values |-> DictGet(dict, all_values[i])])

\* the characters of the input strings
InputChars == {"A", "B", "Z", "|"}

InputStrings == UNION {[1..n -> InputChars] : n \in 0..MaxLen}

\* the label tables of the field: three options, one label listed twice, none
ValueTables ==
    {<<Option(<<"A">>, PyInt(1)), Option(<<"B">>, PyInt(2)),
       Option(<<"C">>, PyInt(3))>>,
     <<Option(<<"A">>, PyInt(1)), Option(<<"B">>, PyInt(2)),
       Option(<<"A">>, PyInt(3))>>,
     <<>>}

\* the names a term can have
TermNames == {<<"a">>, <<"b">>, <<"a", "|", "b">>}

\* the id of the taxonomy's root term
RootId == 0

\* n['path_ids'] of node i when parent[i] is the parent of node i: the ids
\* from the root down to the parent
RECURSIVE PathIds(_, _)
PathIds(parent, i) ==
    IF parent[i] = RootId THEN <<RootId>>
    ELSE Append(PathIds(parent, parent[i]), parent[i])

\* the node lists of the taxonomies with n terms below the root, parents
\* listed before their children
Taxonomies(n) ==
    {[i \in 1..n |-> [id |-> i, name |-> names[i], path_ids |-> PathIds(parent, i)]] :
        parent \in {p \in [1..n -> 0..n] : \A i \in 1..n : p[i] < i},
        names \in [1..n -> TermNames]}

\* path = n['path_ids'][1:]; path.append(n['id'])
NodePath(n) == Append(Tail(n.path_ids), n.id)

\* name_for_id[x], every id of a path being the id of a listed node
name_for_id(nodes, x) == nodes[CHOOSE i \in DOMAIN nodes : nodes[i].id = x].name

\* '|'.join(name_for_id[x] for x in path)
FullPath(nodes, n) ==
    Join([k \in DOMAIN NodePath(n) |-> name_for_id(nodes, NodePath(n)[k])], "|")

\* _create_taxonomy_dict: id_for_path[full_path] = {'leaf': ..., 'path': ...}
\* for every node in turn; a later node replaces an earlier one's entry
_create_taxonomy_dict(nodes) ==
    [fp \in {FullPath(nodes, nodes[i]) : i \in DOMAIN nodes} |->
        LET last_i == CHOOSE i \in DOMAIN nodes :
                        /\ FullPath(nodes, nodes[i]) = fp
                        /\ \A j \in DOMAIN nodes :
                              FullPath(nodes, nodes[j]) = fp => j <= i
        IN [leaf |-> nodes[last_i].id, path |-> NodePath(nodes[last_i])]]

NoIndex == [fp \in {} |-> <<>>]

\* s.split(sep) for a separator of any length: cut at the leftmost
\* occurrence, then split the rest
RECURSIVE SplitStr(_, _)
SplitStr(s, sep) ==
    LET n == Len(sep)
        hits == {i \in 1..(Len(s) - n + 1) : SubSeq(s, i, i + n - 1) = sep}
    IN IF hits = {} THEN <<s>>
       ELSE LET k == CHOOSE i \in hits : \A j \in hits : i <= j
            IN <<SubSeq(s, 1, k - 1)>> \o SplitStr(SubSeq(s, k + n, Len(s)), sep)

\* sep.join(parts) for a separator of any length
RECURSIVE JoinStr(_, _)
JoinStr(parts, sep) ==
    IF parts = <<>> THEN <<>>
    ELSE IF Len(parts) = 1 THEN parts[1]
    ELSE parts[1] \o sep \o JoinStr(Tail(parts), sep)

\* s.startswith(prefix)
StartsWith(s, prefix) ==
    Len(s) >= Len(prefix) /\ SubSeq(s, 1, Len(prefix)) = prefix

\* a Python list
PyList(items) == [type |-> "list", items |-> items]

\* the separator of the breadcrumbs of a term field: '||'
TermSep == <<"|", "|">>

\* [index.get(x)['leaf'] for x in all_values if index.get(x) is not None]
RECURSIVE Leaves(_, _)
Leaves(all_values, index) ==
    IF all_values = <<>> THEN <<>>
    ELSE IF Head(all_values) \in DOMAIN index
        THEN <<index[Head(all_values)].leaf>> \o Leaves(Tail(all_values), index)
    ELSE Leaves(Tail(all_values), index)

\* for x in all_values: if index.get(x) is not None:
\*     new_value.extend(index.get(x)['path'])
RECURSIVE Paths(_, _)
Paths(all_values, index) ==
    IF all_values = <<>> THEN <<>>
    ELSE IF Head(all_values) \in DOMAIN index
        THEN index[Head(all_values)].path \o Paths(Tail(all_values), index)
    ELSE Paths(Tail(all_values), index)

\* create_custom_metadata, the term branch:
\* `all_values = new_value.split('||') if new_value else []`
CreateCustomTerm(none, value, index, path_mode) ==
    LET all_values == IF none \/ value = <<>> THEN <<>>
                      ELSE SplitStr(value, TermSep)
    IN IF path_mode THEN Paths(all_values, index) ELSE Leaves(all_values, index)

CreateMetadataTerm_LeafOnly(none, value, index, path_mode) ==
    LET all_values == IF none THEN <<>> ELSE SplitStr(value, TermSep)
    IN Leaves(all_values, index)

\* _create_metadata, the term branch:
\* `all_values = new_value.split('||') if new_value is not None else []`
CreateMetadataTerm(none, value, index, path_mode) ==
    LET all_values == IF none THEN <<>> ELSE SplitStr(value, TermSep)
    IN IF path_mode THEN Paths(all_values, index) ELSE Leaves(all_values, index)

\* 'asset:'
AssetPrefix == <<"a", "s", "s", "e", "t", ":">>

\* create_custom_metadata, the asset branch
CreateCustomAsset(value) ==
    PyList(SelectSeq(SplitStr(value, <<",">>),
                     LAMBDA x : StartsWith(x, AssetPrefix)))

\* the value create_custom_metadata stores for a field: the branches of
\* lines 209-291 that the model covers
CreateCustomValue(type, none, value, values, index, path_mode) ==
    IF type = "multi-select" THEN CreateCustomMultiSelect(value, values)
    ELSE IF type = "asset" THEN CreateCustomAsset(value)
    ELSE CreateCustomTerm(none, value, index, path_mode)

\* the value _create_metadata stores for a field: it has branches for
\* select, multi-select, string-array and term, and stores the input as it
\* is for a field of any other type
CreateMetadataValue(type, none, value, values, index, path_mode) ==
    IF type = "multi-select" THEN CreateMetadataMultiSelect(value, values)
    ELSE IF type = "term" THEN CreateMetadataTerm(none, value, index, path_mode)
    ELSE PyStr(value)

\* the breadcrumbs an input names: names and paths of terms, one that no
\* taxonomy of the model has, and the empty string
Crumbs ==
    TermNames \cup {<<"b", "|", "a">>, <<"z">>, <<>>}

\* the input values of a term field
TermInputs ==
    {JoinStr(crumbs, TermSep) :
        crumbs \in UNION {[1..n -> Crumbs] : n \in 0..MaxCrumbs}}

\* the tokens of the input of an asset field
AssetTokens ==
    {AssetPrefix \o <<"1">>, AssetPrefix \o <<"2">>,
     <<"p", "o", "s", "t", ":", "1">>, <<" ">> \o AssetPrefix \o <<"1">>, <<>>}

\* the input values of an asset field
AssetInputs ==
    {JoinStr(tokens, <<",">>) :
        tokens \in UNION {[1..n -> AssetTokens] : n \in 0..MaxCrumbs}}

TranslateIdle ==
    /\ xpc = "idle" /\ field_values = <<>> /\ new_value = <<>>
    /\ created_value = <<>> /\ metadata_value = <<>> /\ all_nodes = <<>>
    /\ id_for_path = NoIndex /\ looked_up = 0 /\ term_value = <<>>
    /\ field_type = "none" /\ no_value = FALSE /\ tag_path_terms = FALSE

\* a multi-select field or an asset field is about to be translated, or the
\* index of a taxonomy is about to be built, for its own sake or for a term
\* field that is translated next
TranslateStart ==
    /\ created_value = <<>> /\ metadata_value = <<>>
    /\ id_for_path = NoIndex /\ looked_up = 0 /\ term_value = <<>>
    /\ \/ /\ xpc = "create_custom" /\ field_type = "multi-select"
          /\ field_values \in ValueTables
          /\ new_value \in InputStrings
          /\ all_nodes = <<>>
          /\ no_value = FALSE /\ tag_path_terms = FALSE
       \/ /\ xpc = "create_custom" /\ field_type = "asset"
          /\ field_values = <<>>
          /\ new_value \in AssetInputs
          /\ all_nodes = <<>>
          /\ no_value = FALSE /\ tag_path_terms = FALSE
       \/ /\ xpc = "taxonomy" /\ field_type = "none"
          /\ field_values = <<>> /\ new_value = <<>>
          /\ all_nodes \in UNION {Taxonomies(n) : n \in 0..MaxNodes}
          /\ no_value = FALSE /\ tag_path_terms = FALSE
       \/ /\ xpc = "taxonomy" /\ field_type = "term"
          /\ field_values = <<>>
          /\ all_nodes \in UNION {Taxonomies(n) : n \in 0..MaxTermNodes}
          /\ \/ no_value = FALSE /\ new_value \in TermInputs
             \/ no_value = TRUE /\ new_value = <<>>
          /\ tag_path_terms \in BOOLEAN

\* create_custom_metadata translates the field
XCreateCustom ==
    /\ xpc = "create_custom"
    /\ created_value' = CreateCustomValue(field_type, no_value, new_value,
                                          field_values, id_for_path,
                                          tag_path_terms)
    /\ xpc' = "create_metadata"
    /\ UNCHANGED <<field_values, new_value, metadata_value, all_nodes,
                   id_for_path, looked_up, term_value, field_type, no_value,
                   tag_path_terms, tvars, evars, uvars, gvars, fvars, svars, kvars>>

\* _create_metadata translates the same field
XCreateMetadata ==
    /\ xpc = "create_metadata"
    /\ metadata_value' = CreateMetadataValue(field_type, no_value, new_value,
                                             field_values, id_for_path,
                                             tag_path_terms)
    /\ xpc' = "translated"
    /\ UNCHANGED <<field_values, new_value, created_value, all_nodes,
                   id_for_path, looked_up, term_value, field_type, no_value,
                   tag_path_terms, tvars, evars, uvars, gvars, fvars, svars, kvars>>

\* _setup_taxonomies builds the index of the taxonomy
XIndex ==
    /\ xpc = "taxonomy"
    /\ id_for_path' = _create_taxonomy_dict(all_nodes)
    /\ xpc' = IF field_type = "term" THEN "create_custom" ELSE "indexed"
    /\ UNCHANGED <<field_values, new_value, created_value, metadata_value,
                   all_nodes, looked_up, term_value, field_type, no_value,
                   tag_path_terms, tvars, evars, uvars, gvars, fvars, svars, kvars>>

\* the term branch of create_custom_metadata, for an input that is the
\* breadcrumb of one node: [self.taxonomies[root_id].get(x)['leaf'] ...]
XResolve ==
    /\ xpc = "indexed"
    /\ \E i \in DOMAIN all_nodes :
        /\ looked_up' = all_nodes[i].id
        /\ term_value' =
              <<id_for_path[FullPath(all_nodes, all_nodes[i])].leaf>>
    /\ xpc' = "resolved"
    /\ UNCHANGED <<field_values, new_value, created_value, metadata_value,
                   all_nodes, id_for_path, field_type, no_value,
                   tag_path_terms, tvars, evars, uvars, gvars, fvars, svars, kvars>>

XNext == XCreateCustom \/ XCreateMetadata \/ XIndex \/ XResolve

-----------------------------------------------------------------------------
(* Forward translation of term fields: _get_name_path_ids_for_term_id,     *)
(* _get_full_path_for_term, translate_custom_metadata, and the reverse     *)
(* translation of what it produced                                         *)

\* the name a term is given when it is renamed on the server
Renamed(name) == IF name = <<"b">> THEN <<"a">> ELSE <<"b">>

\* what GET /v5/term/<id> answers for a node: 404, or the term under its
\* first name or under a new one
Answer(node, kind) ==
    IF kind = "404" THEN [status |-> 404, name |-> <<>>]
    ELSE IF kind = "renamed" THEN [status |-> 200, name |-> Renamed(node.name)]
    ELSE [status |-> 200, name |-> node.name]

\* the server's answers during one operation, for every node of the
\* taxonomy; the terms outside `askable` answer 200 under their first name
Answers(nodes, askable) ==
    {[t \in {nodes[i].id : i \in DOMAIN nodes} |->
        Answer(nodes[CHOOSE i \in DOMAIN nodes : nodes[i].id = t],
               IF t \in askable THEN kinds[t] ELSE "ok")] :
        kinds \in [askable -> {"ok", "renamed", "404"}]}

\* path_ids of the node with id t
PathIdsOf(nodes, t) ==
    nodes[CHOOSE i \in DOMAIN nodes : nodes[i].id = t].path_ids

_get_name_path_ids_for_term_id_KeepsPath(nodes, ans, t) ==
    [name |-> IF ans[t].status = 200 THEN ans[t].name ELSE <<>>,
     path |-> Tail(PathIdsOf(nodes, t))]

\* _get_name_path_ids_for_term_id: (name, path_ids[1:]), or ('', []) when
\* get_object raises PercolateAPIError
_get_name_path_ids_for_term_id(nodes, ans, t) ==
    IF ans[t].status = 200
        THEN [name |-> ans[t].name, path |-> Tail(PathIdsOf(nodes, t))]
    ELSE [name |-> <<>>, path |-> <<>>]

\* dict[k] = v
DictSet(dict, k, v) ==
    [x \in DOMAIN dict \cup {k} |-> IF x = k THEN v ELSE dict[x]]

\* name_for_term.get(x, '')
NameGet(names, x) == IF x \in DOMAIN names THEN names[x] ELSE <<>>

\* lines 74-77: the names of the ancestors that are not cached yet
RECURSIVE AncestorNames(_, _, _, _)
AncestorNames(nodes, ans, names, path) ==
    IF path = <<>> THEN names
    ELSE AncestorNames(nodes, ans,
            IF Head(path) \in DOMAIN names THEN names
            ELSE DictSet(names, Head(path),
                         _get_name_path_ids_for_term_id(nodes, ans, Head(path)).name),
            Tail(path))

\* _get_full_path_for_term: the caches after the call, the breadcrumb it
\* returns and the terms it sent a GET for
_get_full_path_for_term(nodes, ans, names, paths, t) ==
    IF t \in DOMAIN paths
        THEN [names |-> names, paths |-> paths, path |-> paths[t], asked |-> {}]
    ELSE LET np == _get_name_path_ids_for_term_id(nodes, ans, t)
             names1 == DictSet(names, t, np.name)
             names2 == AncestorNames(nodes, ans, names1, np.path)
             path == Append(np.path, t)
             full == Join([k \in DOMAIN path |-> NameGet(names2, path[k])], "|")
         IN [names |-> names2, paths |-> DictSet(paths, t, full), path |-> full,
             asked |-> {t} \cup (Range(np.path) \ DOMAIN names1)]

\* `all_values = [self._get_full_path_for_term(x) for x in final_value]`:
\* the calls in turn
RECURSIVE AllFullPaths(_, _, _, _, _)
AllFullPaths(nodes, ans, names, paths, terms) ==
    IF terms = <<>>
        THEN [names |-> names, paths |-> paths, all_values |-> <<>>, asked |-> {}]
    ELSE LET one == _get_full_path_for_term(nodes, ans, names, paths, Head(terms))
             rest == AllFullPaths(nodes, ans, one.names, one.paths, Tail(terms))
         IN [names |-> rest.names, paths |-> rest.paths,
             all_values |-> <<one.path>> \o rest.all_values,
             asked |-> one.asked \cup rest.asked]

\* translate_custom_metadata for a field of type 'term':
\* '||'.join(all_values), and None for an empty string
TermFinalValue(all_values) ==
    LET joined == JoinStr(all_values, TermSep)
    IN IF joined = <<>> THEN PyNone ELSE PyStr(joined)

\* the term ids of a field's value: lists of different ids of the taxonomy
TermLists(nodes) ==
    {l \in UNION {[1..n -> {nodes[i].id : i \in DOMAIN nodes}] : n \in 0..MaxTerms} :
        \A i, j \in DOMAIN l : l[i] = l[j] => i = j}

\* the terms a GET can be sent for when the breadcrumbs of `terms` are
\* asked for: those without a cached breadcrumb, and their ancestors
Askable(nodes, paths, terms) ==
    UNION {{terms[i]} \cup Range(Tail(PathIdsOf(nodes, terms[i]))) :
            i \in {k \in DOMAIN terms : terms[k] \notin DOMAIN paths}}

\* the answers that differ only for terms no GET is sent for are one case:
\* such a term is taken to answer 200 under its first name
Unasked(nodes, ans, asked) ==
    \A i \in DOMAIN nodes :
        nodes[i].id \notin asked =>
            ans[nodes[i].id] = [status |-> 200, name |-> nodes[i].name]

\* the terms whose GET was answered 404
Failed(ans, asked) == {t \in asked : ans[t].status = 404}

NoNames == [t \in {} |-> <<>>]

NoOp == [op |-> "none", terms |-> <<>>, failed |-> {}, asked |-> {}]

ForwardIdle ==
    /\ fpc = "idle" /\ remote_nodes = <<>> /\ taxonomies = NoIndex
    /\ name_for_term = NoNames /\ full_path_for_term = NoNames
    /\ f_op = NoOp /\ f_result = PyNone

\* a MetadataUpdater just built: the index of the taxonomy is set up
\* (lines 27, 173-192), the term caches are empty (lines 32-33)
ForwardStart ==
    /\ fpc = "ready"
    /\ remote_nodes \in UNION {Taxonomies(n) : n \in 1..MaxTermNodes}
    /\ taxonomies = _create_taxonomy_dict(remote_nodes)
    /\ name_for_term = NoNames /\ full_path_for_term = NoNames
    /\ f_op = NoOp /\ f_result = PyNone

\* one call of _get_full_path_for_term, the first operation on the updater
FFullPath ==
    /\ fpc = "ready"
    /\ \E i \in DOMAIN remote_nodes :
        LET t == remote_nodes[i].id
        IN \E ans \in Answers(remote_nodes,
                              Askable(remote_nodes, full_path_for_term, <<t>>)) :
            LET r == _get_full_path_for_term(remote_nodes, ans, name_for_term,
                                             full_path_for_term, t)
            IN  /\ Unasked(remote_nodes, ans, r.asked)
                /\ name_for_term' = r.names
                /\ full_path_for_term' = r.paths
                /\ f_result' = PyStr(r.path)
                /\ f_op' = [op |-> "full_path", terms |-> <<t>>,
                            failed |-> Failed(ans, r.asked), asked |-> r.asked]
    /\ fpc' = "warm"
    /\ UNCHANGED <<remote_nodes, taxonomies, tvars, evars, uvars, gvars, xvars, svars, kvars>>

\* translate_custom_metadata for a schema that is cached and has one field,
\* of type 'term', whose value in ext_data is `terms`: the value of the
\* field in the result; the first operation on the updater, or the next
\* after a call of _get_full_path_for_term
FTranslate ==
    /\ fpc \in {"ready", "warm"}
    /\ \E terms \in TermLists(remote_nodes) :
        \E ans \in Answers(remote_nodes,
                           Askable(remote_nodes, full_path_for_term, terms)) :
            LET r == AllFullPaths(remote_nodes, ans, name_for_term,
                                  full_path_for_term, terms)
            IN  /\ Unasked(remote_nodes, ans, r.asked)
                /\ name_for_term' = r.names
                /\ full_path_for_term' = r.paths
                /\ f_result' = TermFinalValue(r.all_values)
                /\ f_op' = [op |-> "translate", terms |-> terms,
                            failed |-> Failed(ans, r.asked), asked |-> r.asked]
    /\ fpc' = "translated"
    /\ UNCHANGED <<remote_nodes, taxonomies, tvars, evars, uvars, gvars, xvars, svars, kvars>>

\* _create_metadata in leaf mode for a term field whose input is what
\* translate_custom_metadata produced for it
FReverse ==
    /\ fpc = "translated"
    /\ f_result' = PyList(CreateMetadataTerm(f_result.type = "NoneType",
                            IF f_result.type = "str" THEN f_result.chars ELSE <<>>,
                            taxonomies, FALSE))
    /\ f_op' = [f_op EXCEPT !.op = "reverse"]
    /\ fpc' = "reversed"
    /\ UNCHANGED <<remote_nodes, taxonomies, name_for_term,
                   full_path_for_term, tvars, evars, uvars, gvars, xvars, svars, kvars>>

FNext == FFullPath \/ FTranslate \/ FReverse

-----------------------------------------------------------------------------
(* The schema cache (_get_schema, _get_custom_fields) under the operations *)
(* that read schemas, and merge_metadata                                   *)

\* the schema ids of the license
SchemaIds == {"schema:1", "schema:2"}

\* the schema merge_metadata is called for
MergeSchema == "schema:1"

\* the fields of the merged schema: a term field without limit, a term
\* field limited to one term, a text field
MergeFields ==
    <<[key |-> "u", type |-> "term", limit |-> PyNone],
      [key |-> "l", type |-> "term", limit |-> PyInt(1)],
      [key |-> "x", type |-> "text", limit |-> PyNone]>>

\* the values of a term field in a record: lists of different term ids
TermValues ==
    {l \in UNION {[1..n -> 1..MaxTerms] : n \in 0..MaxTerms} :
        \A i, j \in DOMAIN l : l[i] = l[j] => i = j}

\* a metadata record of an object, or the lack of one
NoRecord == [exists |-> FALSE, ext |-> [k \in {} |-> <<>>]]
Record(ext) == [exists |-> TRUE, ext |-> ext]

\* the records an object can have for the merged schema: the limited field
\* holds term 1, the unlimited one is missing or holds a list
Records_ ==
    {NoRecord} \cup {Record([k \in {"l"} |-> <<1>>])}
        \cup {Record([k \in {"u", "l"} |-> IF k = "u" THEN v ELSE <<1>>]) :
                v \in TermValues}

\* of these, the ones whose unlimited field is missing or holds term 1
SmallRecords ==
    {r \in Records_ : "u" \in DOMAIN r.ext => r.ext["u"] = <<1>>}

\* ext.get(key, [])
ExtGet(ext, key) == IF key \in DOMAIN ext THEN ext[key] ELSE <<>>

\* the orders list(set(...)) can give the elements of a set
ListsOf(set) ==
    {l \in [1..Cardinality(set) -> set] : \A i, j \in DOMAIN l : l[i] = l[j] => i = j}

\* the keys merge_metadata merges: `field['type'] == 'term' and
\* field['ext']['limit'] is None`
MergedKeys ==
    {MergeFields[i].key : i \in {k \in DOMAIN MergeFields :
        MergeFields[k].type = "term" /\ MergeFields[k].limit = PyNone}}

NewMds_Concatenated(existing_md, adding_md) ==
    {[key \in MergedKeys |-> ExtGet(existing_md, key) \o ExtGet(adding_md, key)]}

\* the values new_md can take: for every merged key
\* list(set(existing) | set(adding)), in any order
NewMds(existing_md, adding_md) ==
    {md \in [MergedKeys -> UNION {ListsOf(ids) : ids \in SUBSET (1..MaxTerms)}] :
        \A key \in MergedKeys :
            md[key] \in ListsOf(Range(ExtGet(existing_md, key))
                                 \cup Range(ExtGet(adding_md, key)))}

MergeWrite_DryRunWrites(dry_run, md_obj_exists) ==
    IF md_obj_exists THEN "PUT" ELSE "POST"

\* the write merge_metadata ends with: none in a dry run, else a POST when
\* the target has no record of the schema and a PUT when it has one
MergeWrite(dry_run, md_obj_exists) ==
    IF dry_run THEN "none" ELSE IF md_obj_exists THEN "PUT" ELSE "POST"

\* a request sent
Request(m, url, ext) == [method |-> m, url |-> url, ext |-> ext]
NoExt == [k \in {} |-> <<>>]

\* _get_schema, and lines 122-126 of _get_custom_fields: the GET is sent
\* when the id is not a key of the cache
NeedsGet_Always(cache, sid) == TRUE

NeedsGet(cache, sid) == sid \notin cache

NoPut == [sent |-> FALSE, ext |-> NoExt]
APut(ext) == [sent |-> TRUE, ext |-> [key \in DOMAIN ext |-> Range(ext[key])]]

NoMergeOp == [op |-> "none", schema |-> "none", dry_run |-> FALSE,
              raised |-> FALSE, existing |-> NoExt, adding |-> NoExt]

SchemasIdle ==
    /\ spc = "idle" /\ schemas_cache = {} /\ listed = {}
    /\ schema_gets = [sid \in SchemaIds |-> 0]
    /\ schema_answered = [sid \in SchemaIds |-> 0]
    /\ source_md = NoRecord /\ target_md = NoRecord
    /\ m_op = NoMergeOp /\ m_requests = <<>>
    /\ prev_put = NoPut /\ last_put = NoPut

\* a MetadataUpdater just built: the cache holds the schemas the listing
\* returned (lines 26, 141-146)
SchemasStart ==
    /\ spc = "ready"
    /\ listed \in SUBSET SchemaIds
    /\ schemas_cache = listed
    /\ schema_gets = [sid \in SchemaIds |-> 0]
    /\ schema_answered = [sid \in SchemaIds |-> 0]
    \* any records when the listing returned every schema, else small ones
    /\ source_md \in (IF listed = SchemaIds THEN Records_ ELSE SmallRecords)
    /\ target_md \in (IF listed = SchemaIds THEN Records_ ELSE SmallRecords)
    /\ m_op = NoMergeOp /\ m_requests = <<>>
    /\ prev_put = NoPut /\ last_put = NoPut

\* the schema part of an operation that needs schema sid: the GET of
\* /v5/schema/<sid> if sid is not cached, answered or failed
SchemaRead(sid, answered) ==
    IF NeedsGet(schemas_cache, sid)
        THEN /\ schema_gets[sid] < MaxGets
             /\ schema_gets' = [schema_gets EXCEPT ![sid] = @ + 1]
             /\ schema_answered' =
                    [schema_answered EXCEPT ![sid] = IF answered THEN @ + 1 ELSE @]
             /\ schemas_cache' =
                    IF answered THEN schemas_cache \cup {sid} ELSE schemas_cache
    ELSE /\ answered
         /\ UNCHANGED <<schema_gets, schema_answered, schemas_cache>>

SchemaRequests(sid) ==
    IF NeedsGet(schemas_cache, sid)
        THEN <<Request("GET", "/v5/schema/<id>", NoExt)>> ELSE <<>>

\* translate_custom_metadata(sid, ext_data) for a record without term
\* values: the schema is read, no other request is sent
STranslate ==
    /\ spc = "ready"
    /\ \E sid \in SchemaIds, answered \in BOOLEAN :
        /\ SchemaRead(sid, answered)
        /\ m_requests' = SchemaRequests(sid)
        /\ m_op' = [NoMergeOp EXCEPT !.op = "translate", !.schema = sid,
                                     !.raised = ~answered]
    /\ UNCHANGED <<spc, listed, source_md, target_md, prev_put, last_put,
                   tvars, evars, uvars, gvars, xvars, fvars, kvars>>

\* create_custom_metadata(sid, metadata_dict) for a dict without link
\* fields: _get_custom_fields(schema_uids=[sid]) reads the schema
SCreateCustom ==
    /\ spc = "ready"
    /\ \E sid \in SchemaIds, answered \in BOOLEAN :
        /\ SchemaRead(sid, answered)
        /\ m_requests' = SchemaRequests(sid)
        /\ m_op' = [NoMergeOp EXCEPT !.op = "create_custom", !.schema = sid,
                                     !.raised = ~answered]
    /\ UNCHANGED <<spc, listed, source_md, target_md, prev_put, last_put,
                   tvars, evars, uvars, gvars, xvars, fvars, kvars>>

\* update(object_uid, {}, standard=False): _create_metadata asks
\* _get_custom_fields for the cached schemas of the object's type, which
\* sends no GET for a schema, and lists the schemas again when the cache is
\* empty; update_custom_metadata reads the object's metadata and has
\* nothing to write
SUpdate ==
    /\ spc = "ready"
    /\ \E fails_at \in {"none", "listing", "metadata"} :
        LET listing == IF schemas_cache = {}
                        THEN <<Request("GET", "/v5/schema/", NoExt)>> ELSE <<>>
        IN
        /\ fails_at = "listing" => schemas_cache = {}
        /\ m_requests' =
                IF fails_at = "listing" THEN listing
                ELSE listing \o <<Request("GET", "/v5/metadata/", NoExt)>>
        /\ m_op' = [NoMergeOp EXCEPT !.op = "update", !.raised = (fails_at # "none")]
    /\ UNCHANGED <<spc, schemas_cache, listed, schema_gets, schema_answered,
                   source_md, target_md, prev_put, last_put,
                   tvars, evars, uvars, gvars, xvars, fvars, kvars>>

\* merge_metadata(MergeSchema, source, target, dry_run): fails_at names the
\* request that raises, if any
SMerge ==
    /\ spc = "ready"
    /\ \E dry_run \in BOOLEAN,
          fails_at \in {"none", "source", "target", "schema", "write"} :
        LET get_source == Request("GET", "/v5/metadata/ (source)", NoExt)
            get_target == Request("GET", "/v5/metadata/ (target)", NoExt)
            op == [NoMergeOp EXCEPT !.op = "merge", !.schema = MergeSchema,
                                    !.dry_run = dry_run]
            quiet == UNCHANGED <<schemas_cache, schema_gets, schema_answered,
                                 source_md, target_md, prev_put, last_put>>
        IN
        IF fails_at = "source"
            THEN /\ m_requests' = <<get_source>>
                 /\ m_op' = [op EXCEPT !.raised = TRUE]
                 /\ quiet
        ELSE IF ~source_md.exists
            THEN \* `if not source_obj_resp['meta']['total']: return`
                 /\ fails_at = "none"
                 /\ m_requests' = <<get_source>>
                 /\ m_op' = op
                 /\ quiet
        ELSE IF fails_at = "target"
            THEN /\ m_requests' = <<get_source, get_target>>
                 /\ m_op' = [op EXCEPT !.raised = TRUE, !.adding = source_md.ext]
                 /\ quiet
        ELSE IF ~target_md.exists
            THEN \* lines 556-562: the source's record is posted for the target
                 /\ fails_at \in {"none", "write"}
                 /\ fails_at = "write" => MergeWrite(dry_run, FALSE) # "none"
                 /\ m_requests' =
                        <<get_source, get_target>> \o
                        (IF MergeWrite(dry_run, FALSE) = "none" THEN <<>>
                         ELSE <<Request(MergeWrite(dry_run, FALSE),
                                        "/v5/metadata/", source_md.ext)>>)
                 /\ m_op' = [op EXCEPT !.raised = (fails_at = "write"),
                                       !.adding = source_md.ext]
                 /\ target_md' =
                        IF MergeWrite(dry_run, FALSE) # "none" /\ fails_at = "none"
                            THEN Record(source_md.ext) ELSE target_md
                 /\ UNCHANGED <<schemas_cache, schema_gets, schema_answered,
                                source_md, prev_put, last_put>>
        ELSE IF fails_at = "schema"
            THEN /\ NeedsGet(schemas_cache, MergeSchema)
                 /\ SchemaRead(MergeSchema, FALSE)
                 /\ m_requests' =
                        <<get_source, get_target>> \o SchemaRequests(MergeSchema)
                 /\ m_op' = [op EXCEPT !.raised = TRUE, !.adding = source_md.ext,
                                       !.existing = target_md.ext]
                 /\ UNCHANGED <<source_md, target_md, prev_put, last_put>>
        ELSE \* lines 564-584: the union is put to the target's record
             /\ fails_at \in {"none", "write"}
             /\ fails_at = "write" => MergeWrite(dry_run, TRUE) # "none"
             /\ SchemaRead(MergeSchema, TRUE)
             /\ \E new_md \in NewMds(target_md.ext, source_md.ext) :
                 /\ m_requests' =
                        <<get_source, get_target>> \o SchemaRequests(MergeSchema) \o
                        (IF MergeWrite(dry_run, TRUE) = "none" THEN <<>>
                         ELSE <<Request(MergeWrite(dry_run, TRUE),
                                        "/v5/metadata/<id>", new_md)>>)
                 /\ target_md' =
                        IF MergeWrite(dry_run, TRUE) # "none" /\ fails_at = "none"
                            THEN Record(new_md) ELSE target_md
                 /\ IF MergeWrite(dry_run, TRUE) # "none"
                        THEN /\ prev_put' = last_put
                             /\ last_put' = APut(new_md)
                    ELSE UNCHANGED <<prev_put, last_put>>
             /\ m_op' = [op EXCEPT !.raised = (fails_at = "write"),
                                   !.adding = source_md.ext,
                                   !.existing = target_md.ext]
             /\ UNCHANGED source_md
    /\ UNCHANGED <<spc, listed, tvars, evars, uvars, gvars, xvars, fvars, kvars>>

SNext == STranslate \/ SCreateCustom \/ SUpdate \/ SMerge

-----------------------------------------------------------------------------
(* _prepare_tags and self.tag_cache over a sequence of update_metadata    *)
(* calls on one MetadataUpdater                                            *)

\* `tag[:64]`
NameLimit == 64

TermPrefix == <<"t", "e", "r", "m", ":">>

\* a tag of NameLimit + 1 characters that ends with ch
LongTag(ch) == [i \in 1..(NameLimit + 1) |-> IF i <= NameLimit THEN "x" ELSE ch]

\* the tags of the input: a short one, two long ones that differ in the
\* last character only, and a term id
Tags == {<<"a">>, LongTag("a"), LongTag("b"), TermPrefix \o <<"9">>}

\* the arguments of _prepare_tags, lists of different tags: [] stands for
\* a call whose Tags is empty
TagLists ==
    {l \in UNION {[1..n -> Tags] : n \in 0..MaxTagList} :
        \A i, j \in DOMAIN l : l[i] = l[j] => i = j}

\* `'name': tag[:64]`
PostedName(tag) == SubSeq(tag, 1, Min(NameLimit, Len(tag)))

CacheKey_WholeTag(tag) == tag

\* the key of self.tag_cache: `tag[:64]`
CacheKey(tag) == SubSeq(tag, 1, Min(NameLimit, Len(tag)))

\* the names a POST to /v5/term/ can carry
TagNames == {PostedName(tag) : tag \in Tags}

\* response['id'] of the n-th term the server creates
TermUid(n) == TermPrefix \o <<DigitChars[n + 1]>>

\* the loop of _prepare_tags from position i on; the POST for position
\* fail_at raises
RECURSIVE PrepareFrom(_, _, _, _)
PrepareFrom(tags, i, fail_at, st) ==
    IF i > Len(tags) THEN st
    ELSE IF StartsWith(tags[i], TermPrefix)
        THEN PrepareFrom(tags, i + 1, fail_at,
                         [st EXCEPT !.term_ids = Append(@, tags[i])])
    ELSE IF CacheKey(tags[i]) \in DOMAIN st.cache
        THEN PrepareFrom(tags, i + 1, fail_at,
                         [st EXCEPT !.term_ids = Append(@, st.cache[CacheKey(tags[i])])])
    ELSE IF fail_at = i
        THEN [st EXCEPT !.posts = Append(@, PostedName(tags[i])), !.raised = TRUE]
    ELSE LET id == TermUid(Cardinality(DOMAIN st.cache) + 1) IN
         PrepareFrom(tags, i + 1, fail_at,
                     [st EXCEPT !.posts = Append(@, PostedName(tags[i])),
                                !.answered = Append(@, PostedName(tags[i])),
                                !.term_ids = Append(@, id),
                                !.cache = DictSet(st.cache, CacheKey(tags[i]), id)])

\* _prepare_tags(tags_list) with self.tag_cache = cache
_prepare_tags(tags, cache, fail_at) ==
    PrepareFrom(tags, 1, fail_at,
                [term_ids |-> <<>>, posts |-> <<>>, answered |-> <<>>,
                 cache |-> cache, raised |-> FALSE])

\* how often name occurs in a list of names
Count(names, name) == Cardinality({i \in DOMAIN names : names[i] = name})

NoCache == [x \in {} |-> <<>>]

TagsIdle ==
    /\ kpc = "idle" /\ tag_cache = NoCache
    /\ term_posts = [name \in TagNames |-> 0]
    /\ term_answered = [name \in TagNames |-> 0]
    /\ tags_list = <<>> /\ term_ids = <<>> /\ k_raised = "none"

\* a MetadataUpdater just built: `self.tag_cache = {}`
TagsStart ==
    /\ kpc = "ready" /\ tag_cache = NoCache
    /\ term_posts = [name \in TagNames |-> 0]
    /\ term_answered = [name \in TagNames |-> 0]
    /\ tags_list = <<>> /\ term_ids = <<>> /\ k_raised = "none"

\* update_metadata(object_uid, metadata_dict): the GET of the object's
\* records, _prepare_tags for the tags, the write of the Asset Metadata
\* record; fails_at names the request that raises, for "tags" the POST for
\* the tag at position pos
KUpdateMetadata ==
    /\ kpc = "ready"
    /\ \E tags \in TagLists, fails_at \in {"none", "get", "tags", "write"},
          pos \in 0..MaxTagList :
        /\ pos > 0 <=> fails_at = "tags"
        /\ pos <= Len(tags)
        /\ tags_list' = tags
        /\ \E r \in {_prepare_tags(tags, tag_cache, pos)} :
            /\ IF fails_at = "get"
                THEN /\ term_ids' = <<>> /\ k_raised' = "get"
                     /\ UNCHANGED <<tag_cache, term_posts, term_answered>>
                ELSE /\ fails_at = "tags" <=> r.raised
                     /\ tag_cache' = r.cache
                     /\ term_posts' =
                            [name \in TagNames |-> term_posts[name] + Count(r.posts, name)]
                     /\ \A name \in TagNames : term_posts'[name] <= MaxPosts
                     /\ term_answered' =
                            [name \in TagNames |->
                                term_answered[name] + Count(r.answered, name)]
                     /\ term_ids' = IF r.raised THEN <<>> ELSE r.term_ids
                     /\ k_raised' = fails_at
    /\ UNCHANGED <<kpc, tvars, evars, uvars, gvars, xvars, fvars, svars>>

KNext == KUpdateMetadata

-----------------------------------------------------------------------------
(* Specifications *)

TInit ==
    TransportStart /\ ExportIdle /\ UpdateIdle /\ PaginateIdle /\ TranslateIdle
    /\ ForwardIdle
    /\ SchemasIdle
    /\ TagsIdle

SpecTransport == TInit /\ [][TNext]_vars

EInit ==
    ExportStart /\ TransportIdle /\ UpdateIdle /\ PaginateIdle /\ TranslateIdle
    /\ ForwardIdle
    /\ SchemasIdle
    /\ TagsIdle

SpecExport == EInit /\ [][ENext]_vars

UInit ==
    UpdateStart /\ TransportIdle /\ ExportIdle /\ PaginateIdle /\ TranslateIdle
    /\ ForwardIdle
    /\ SchemasIdle
    /\ TagsIdle

SpecUpdate == UInit /\ [][UNext]_vars

GInit ==
    PaginateStart /\ TransportIdle /\ ExportIdle /\ UpdateIdle /\ TranslateIdle
    /\ ForwardIdle
    /\ SchemasIdle
    /\ TagsIdle

SpecPaginate == GInit /\ [][GNext]_vars

XInit ==
    TranslateStart /\ TransportIdle /\ ExportIdle /\ UpdateIdle /\ PaginateIdle
    /\ ForwardIdle
    /\ SchemasIdle
    /\ TagsIdle

SpecTranslate == XInit /\ [][XNext]_vars

FInit ==
    ForwardStart /\ TransportIdle /\ ExportIdle /\ UpdateIdle /\ PaginateIdle
    /\ TranslateIdle
    /\ SchemasIdle
    /\ TagsIdle

SpecForward == FInit /\ [][FNext]_vars

KInit ==
    TagsStart /\ TransportIdle /\ ExportIdle /\ UpdateIdle /\ PaginateIdle
    /\ TranslateIdle /\ ForwardIdle /\ SchemasIdle

SpecTags == KInit /\ [][KNext]_vars

SInit ==
    SchemasStart /\ TransportIdle /\ ExportIdle /\ UpdateIdle /\ PaginateIdle
    /\ TranslateIdle /\ ForwardIdle /\ TagsIdle

SpecSchemas == SInit /\ [][SNext]_vars

-----------------------------------------------------------------------------
(* Claims about the transport wrapper, checked under SpecTransport *)

Ended == tstate \in {"returned", "raised"}

\* the exceptions the update model lets a wrapper end with are those the
\* wrapper can end with
RaisesAsListed ==
    (tstate = "raised" /\ method # "DELETE") => texc \in CallOutcomes(method)

\* the last request got an HTTP response with a 4xx status other than 429
LastIsClientError ==
    last.kind = "http" /\ 400 <= last.status /\ last.status < 500
    /\ last.status # 429

\* the last request got a response whose body response.json() was asked to
\* decode and could not: get_object decodes only after raise_for_status()
\* has passed, post_object and put_object decode first, delete_object never
LastFailedDecoding ==
    /\ last.kind = "http" /\ last.body = "nojson"
    /\ \/ method = "GET" /\ ~RaisesForStatus(last.status)
       \/ method \in {"POST", "PUT"}

\* the last iteration was handled as a retried error: 1s sleep and one more
\* retry counted, or, on the 10th attempt, the error re-raised
RetriedLike(exc) ==
    IF prevRetry < 9
        THEN tstate = "loop" /\ slept = 1 /\ retry = prevRetry + 1
             /\ texc = "none"
        ELSE tstate = "raised" /\ texc = exc /\ requests - n429 = 10

\* C6: in get_object, post_object, put_object and delete_object a
\* network-level error is followed by a 1s sleep and another attempt; the
\* requests not answered 429 number at most 10, and a network-level error on
\* the 10th attempt is re-raised as it is.
C6_NetworkErrorRetried ==
    /\ requests - n429 <= 10
    /\ last = NetErr => RetriedLike("ConnectionError")

C6_Witness ==
    last = NetErr /\ tstate = "raised" /\ requests - n429 = 10 /\ n429 > 0

\* C7 as stated: for GET, POST and PUT alike a body that fails JSON decoding
\* is handled like a network-level error (1s sleep, resend, no raise before
\* the attempts are exhausted).
C7_DecodeErrorRetriedByAll ==
    LastFailedDecoding => RetriedLike(texc) /\ (prevRetry < 9 => tstate = "loop")

\* C7 amended: only get_object retries a body that fails JSON decoding like
\* a network-level error; post_object and put_object raise on it at once,
\* with no sleep and no retry counted, put_object a PercolateAPIError.
C7_DecodeErrorRetriedByGetOnly ==
    LastFailedDecoding =>
        IF method = "GET"
            THEN RetriedLike("JSONDecodeError")
            ELSE /\ tstate = "raised" /\ slept = 0 /\ retry = prevRetry
                 /\ method = "PUT" => texc = "PercolateAPIError"

C7_Witness ==
    method = "GET" /\ LastFailedDecoding /\ tstate = "loop" /\ retry = 9

\* C8: when all 10 attempts failed with a retried failure (network error,
\* 5xx, undecodable body) the call ends by raising the transport error: it
\* returns nothing and raises nothing else.
LastWasRetriedFailure ==
    \/ last = NetErr
    \/ /\ last.kind = "http" /\ last.status >= 500
       /\ method \in {"POST", "PUT"} => last.body # "nojson"
    \/ method = "GET" /\ LastFailedDecoding

C8_ExhaustionRaisesTransportError ==
    (Ended /\ requests - n429 = 10 /\ retry >= 9 /\ LastWasRetriedFailure) =>
        tstate = "raised" /\ texc \in {"ConnectionError", "JSONDecodeError", "HTTPError"}

\* C9: a 4xx response other than 429 makes the wrapper raise
\* PercolateAPIError at once, with no sleep and no further request.
C9_ClientErrorRaisesAPIError ==
    LastIsClientError =>
        tstate = "raised" /\ texc = "PercolateAPIError" /\ slept = 0

\* C10: in get_object a 429 leaves the retry counter as it was and is
\* followed by a 60s sleep and another request, never by a raise; a 200 with
\* a parsed body after any run of 429s gives the caller that body.
C10_RateLimitNotCounted ==
    method = "GET" =>
        /\ (last.kind = "http" /\ last.status = 429) =>
              tstate = "loop" /\ retry = prevRetry /\ slept = 60 /\ texc = "none"
        /\ (last.kind = "http" /\ last.status = 200 /\ last.body \in {"data", "plain"}) =>
              /\ tstate \in {"after", "returned"}
              /\ result = ParsedBody(last.body)
              /\ tstate = "returned" => tret = "result"

C10_Witness ==
    /\ method = "GET" /\ n429 >= 2 /\ requests = n429 + 1
    /\ tstate = "returned" /\ last.status = 200

\* C11: when the loop of get_object, post_object or put_object is left with
\* a parsed body that holds the key `errors` (the status of the response may
\* be 200), the call raises PercolateAPIError with that body, the URL and the
\* request's parameters as arguments, and returns nothing.
C11_ErrorsBodyRaises ==
    [][(tstate = "after" /\ method # "DELETE" /\ result.kind = "body"
            /\ result.body = "errors")
        => /\ tstate' = "raised" /\ texc' = "PercolateAPIError"
           /\ tret' = "none"
           /\ result' = ParsedBody("errors")
           /\ targs' = <<"result", "api_url", ParamsName(method), "headers">>]_vars

C11_Witness ==
    /\ method \in {"GET", "POST", "PUT"} /\ last.kind = "http"
    /\ last.status = 200 /\ last.body = "errors" /\ requests = 1
    /\ tstate = "raised" /\ texc = "PercolateAPIError" /\ targs[1] = "result"

-----------------------------------------------------------------------------
(* Claims about get_all_objects, checked under SpecPaginate *)

Ceil(a, b) == (a + b - 1) \div b

MaxOf(a, b) == IF a > b THEN a ELSE b

\* the requests a list of n records needs: max(1, ceil(n / limit))
PagesFor(n, lim) == MaxOf(1, Ceil(n, lim))

\* C12: against a list that does not change, get_all_objects sends the
\* requests with offsets 0, limit, 2*limit, ... and the fixed limit, stops
\* after max(1, ceil(total/limit)) of them and returns every record once, in
\* server order, whatever keys params holds.
C12_PagesCoverList ==
    (gpc = "done" /\ ~list_changed) =>
        /\ Len(sent_params) = PagesFor(Len(server_list), page_limit)
        /\ \A i \in DOMAIN sent_params :
              /\ sent_params[i]["limit"] = page_limit
              /\ sent_params[i]["offset"] = (i - 1) * page_limit
        /\ gao_result = server_list

\* C13 as stated: `total` is the total of the first page, and the number of
\* pages requested follows from it alone.
C13_TotalFromFirstPage ==
    totals # <<>> =>
        /\ total = totals[1]
        /\ gpc = "done" => Len(sent_params) = PagesFor(totals[1], page_limit)

\* C13 amended: `total` is the total of the page fetched last; after every
\* page the loop goes on exactly when the offset reached is below that
\* page's total, so a later page's total changes how many pages are
\* requested.
C13_TotalFromLatestPage ==
    totals # <<>> =>
        /\ total = totals[Len(totals)]
        /\ offset = Len(totals) * page_limit
        /\ gpc # "raised" => (gpc = "page" <=> offset < total)
        /\ Len(sent_params) = Len(totals)
        /\ \A i \in 1..(Len(totals) - 1) : i * page_limit < totals[i]

C13_Witness ==
    /\ gpc = "done" /\ Len(totals) >= 2 /\ totals[1] < totals[Len(totals)]
    /\ Len(sent_params) > PagesFor(totals[1], page_limit)

-----------------------------------------------------------------------------
(* Claims about the export and the warehouse load, checked under SpecExport *)

\* C3: a wrapped warehouse call that fails with 'due to concurrent update'
\* is called again after a sleep of 5s times the retry number, for at most
\* 20 retries; only the failure after the 20th retry raises
\* BigQueryUpdateTooManyTriesException.
C3_ConcurrentUpdateRetried ==
    wlast = "concurrent" =>
        IF calls <= 20
            THEN epc = "clear" /\ wslept = 5 * calls /\ eexc = "none"
            ELSE epc = "raised" /\ eexc = "BigQueryUpdateTooManyTriesException"

\* the number of rows of `rows` that stand for campaign c
RowsOf(rows, c) == Cardinality({j \in DOMAIN rows : rows[j] = c})

ExactlyTheCampaigns(rows) ==
    /\ Len(rows) = Len(all_campaigns)
    /\ \A c \in Range(all_campaigns) : RowsOf(rows, c) = 1

\* C4: a finished get_export has produced exactly one row for every
\* enumerated campaign, for any number of campaigns: in the rows returned or
\* written to the CSV file and in the rows sent to the warehouse.
C4_OneRowPerCampaign ==
    epc = "done" =>
        /\ ExactlyTheCampaigns(all_data_dicts)
        /\ Len(sent) = Len(all_campaigns)
        /\ IF out_dir THEN ExactlyTheCampaigns(csv_rows)
                      ELSE ExactlyTheCampaigns(returned)

\* C5: with bq_clear_on_update set, the rows already in the table with the
\* (Campaign ID, timestamp) of any row of the upload are removed before the
\* insert, so after a finished export the table holds each (campaign, day)
\* row of the upload once, however often the export ran that day.
C5_LoadIdempotentPerDay ==
    (bq_clear_on_update /\ epc = "done") =>
        \A i \in DOMAIN df : table[df[i]] = 1

\* the first campaign, in the order of enumeration, whose metadata has label l
FirstRow(l) ==
    CHOOSE k \in DOMAIN all_campaigns :
        /\ l \in Range(camp_md(all_campaigns[k]))
        /\ \A m \in 1..(k - 1) : l \notin Range(camp_md(all_campaigns[m]))

PosIn(l, seq) == CHOOSE i \in DOMAIN seq : seq[i] = l

\* label x is met before label y while the rows are built
MetBefore(x, y) ==
    \/ FirstRow(x) < FirstRow(y)
    \/ /\ FirstRow(x) = FirstRow(y)
       /\ PosIn(x, camp_md(all_campaigns[FirstRow(x)]))
            < PosIn(y, camp_md(all_campaigns[FirstRow(x)]))

HeaderComplete(h) ==
    /\ Range(h) = Range(header)
                    \cup UNION {RowKeys(all_data_dicts[i]) : i \in DOMAIN all_data_dicts}
    /\ \A i, j \in DOMAIN h : i # j => h[i] # h[j]
    /\ SubSeq(h, 1, Len(header)) = header
    /\ \A i, j \in (Len(header) + 1)..Len(h) : i < j => MetBefore(h[i], h[j])

\* C15: the columns of the frame and the header written or returned are the
\* union of the keys of all row dicts, each once: the standard labels first,
\* then the custom labels in the order they were first met; the header is
\* complete when the frame is built and when the CSV file is written.
C15_HeaderIsUnion ==
    /\ df_columns # <<>> => HeaderComplete(df_columns)
    /\ out_header # <<>> => HeaderComplete(out_header)

C15_Witness ==
    /\ epc = "done" /\ Len(all_data_dicts) = 2 /\ Len(out_header) = Len(header) + 2
    /\ out_header[Len(header) + 1] = "Brief: Goal"
    /\ "Topics: Topics" \in Range(DataOf(all_campaigns[2]).md)
    /\ RowKeys(all_campaigns[1]) # RowKeys(all_campaigns[2])

\* C16: every row passed to insert_rows has the id of the export row in the
\* same position and the run date, and its Budget is the amount of that
\* campaign's budget, whatever the currency (None if there is no budget).
C16_WarehouseRowSameValues ==
    \A i \in DOMAIN sent :
        /\ sent[i] = <<all_data_dicts[i], today>>
        /\ LET b == DataOf(all_data_dicts[i]).budget IN
            df_budget[i] = IF b = PyNone THEN PyNone ELSE PyFloat(100 * b.amount)

\* C17: a wrapped call that fails with the streaming-buffer error ends
\* func_wrapper with BigQueryStreamingBufferException, any failure other
\* than that and the concurrent-update error with the error itself; in both
\* cases nothing is slept and the call is not invoked again.
C17_StreamingAndOtherNotRetried ==
    /\ wlast = "streaming" =>
          /\ epc = "raised" /\ eexc = "BigQueryStreamingBufferException"
          /\ wslept = 0
    /\ wlast = "other" =>
          /\ epc = "raised" /\ eexc = "OtherError"
          /\ wslept = 0

C17_Witness ==
    /\ wlast = "streaming" /\ epc = "raised" /\ Len(df) > 0 /\ sent = <<>>

\* the ids of rows follow one another in ascending order of the id strings
Ascending(ids) ==
    \A i \in 1..(Len(ids) - 1) : StrLess(CampaignId(ids[i]), CampaignId(ids[i + 1]))

\* C18: the rows a finished get_export returned or wrote to the CSV file,
\* and the rows it loaded, are in ascending order of campaign id (the ids
\* are strings), whatever the order of enumeration.
C18_RowsAscendingById ==
    /\ Ascending([i \in DOMAIN sent |-> sent[i][1]])
    /\ epc = "done" =>
          /\ Ascending(returned) /\ Ascending(csv_rows)
          /\ Len(sent) = Len(all_data_dicts)
          /\ Len(all_data_dicts) = (IF out_dir THEN Len(csv_rows) ELSE Len(returned))

C18_Witness ==
    /\ epc = "done" /\ Len(returned) = PROGRESS_EVERY
    /\ all_campaigns[1] > all_campaigns[2]
    /\ returned[2] = 10 /\ returned[3] = 100 /\ Len(sent) = Len(returned)

-----------------------------------------------------------------------------
(* Claims about MetadataUpdater.update, checked under SpecUpdate *)

\* C1: update never propagates a failure of update_metadata or
\* update_custom_metadata: whatever is raised inside them, PercolateAPIError
\* included, update returns False.
C1_UpdateNeverPropagates ==
    failedIn # "none" => upc = "returned" /\ uret = "False" /\ uexc = "none"

CombinedAssetUpdate == standard /\ custom /\ isAsset

\* C2 as stated: a combined update of an asset that reports failure has
\* written no metadata record.
C2_AllOrNothing ==
    (CombinedAssetUpdate /\ uret = "False") => writes = <<>>

\* the writes of a combined update of an asset that meets no failure
ExpectedWrites ==
    <<<<IF exAsset THEN "PUT" ELSE "POST", "asset">>>>
    \o (IF usage THEN <<<<IF exUsage THEN "PUT" ELSE "POST", "usage">>>> ELSE <<>>)
    \o [i \in 1..Len(SelectSeq(exCustom, LAMBDA x : x \in Range(new_metadata))) |->
            <<"PUT", SelectSeq(exCustom, LAMBDA x : x \in Range(new_metadata))[i]>>]
    \o [i \in 1..Len(SelectSeq(new_metadata, LAMBDA x : x \notin Range(exCustom))) |->
            <<"POST", SelectSeq(new_metadata, LAMBDA x : x \notin Range(exCustom))[i]>>]

IsPrefix(a, b) == Len(a) <= Len(b) /\ SubSeq(b, 1, Len(a)) = a

\* C2 amended: a combined update of an asset that reports failure is not
\* rolled back; the records written before the failing step are a prefix of
\* the writes of a successful update (standard record, usage rights, then
\* the touched custom schemas), and nothing is written after the failing step.
C2_FailureKeepsPrefix ==
    (CombinedAssetUpdate /\ uret = "False") =>
        /\ Len(writes) = writesAtFail
        /\ IsPrefix(writes, ExpectedWrites)

C2_Witness ==
    /\ CombinedAssetUpdate /\ uret = "False" /\ failedIn = "uc_write"
    /\ Len(writes) >= 2

\* the requests update_custom_metadata sent for schema sid
SentFor(sid) == {i \in DOMAIN sent_payloads : sent_payloads[i].schema_id = sid}

\* C14: when update_custom_metadata has run to its end, every schema that
\* got a translated field has exactly one request: a PUT to the record's id
\* if the fetched metadata has a record of the schema, whose ext keeps the
\* old value of every key the update does not name and holds the new value
\* of every key it names; else a POST whose ext holds the new keys only.
C14_PutMergesPostCreates ==
    (uret = "True" /\ custom) =>
        \A sid \in Range(new_metadata) :
            /\ Cardinality(SentFor(sid)) = 1
            /\ \A i \in SentFor(sid) :
                LET p == sent_payloads[i]
                    new == new_fields[sid]
                IN  /\ \A k \in DOMAIN new : p.ext[k] = new[k]
                    /\ IF sid \in Range(exCustom)
                        THEN /\ p.method = "PUT"
                             /\ p.url = MetadataId(sid)
                             /\ DOMAIN p.ext =
                                    DOMAIN existing_ext[sid] \cup DOMAIN new
                             /\ \A k \in DOMAIN existing_ext[sid] \ DOMAIN new :
                                    p.ext[k] = existing_ext[sid][k]
                        ELSE /\ p.method = "POST"
                             /\ DOMAIN p.ext = DOMAIN new

C14_Witness ==
    /\ uret = "True" /\ custom /\ Len(sent_payloads) = 2
    /\ sent_payloads[1].method = "PUT" /\ sent_payloads[2].method = "POST"
    /\ "old" \in Range(sent_payloads[1].ext)
    /\ "new" \in Range(sent_payloads[1].ext)

\* the positions of the segments of new_value that are labels of the field
MatchedSegments ==
    LET segs == Split(new_value, "|")
    IN {i \in DOMAIN segs : \E j \in DOMAIN field_values : field_values[j].label = segs[i]}

\* the options of the claim's example
TableABC ==
    <<Option(<<"A">>, PyInt(1)), Option(<<"B">>, PyInt(2)), Option(<<"C">>, PyInt(3))>>

\* C19: when both functions have translated a multi-select field, their
\* results are equal and are the values of the segments of the input
\* (split on "|") that are labels of the field, in input order, the other
\* segments dropped; "A|B" against {A:1, B:2, C:3} gives [1,2], and so do
\* "A|B|Z" and "Z|A|B".
C19_MultiSelectValues ==
    (xpc = "translated" /\ field_type = "multi-select") =>
        LET segs == Split(new_value, "|")
            m == MatchedSegments
        IN  /\ metadata_value = created_value
            /\ Len(created_value) = Cardinality(m)
            /\ \A i \in m :
                 \E j \in DOMAIN field_values :
                    /\ field_values[j].label = segs[i]
                    /\ \A k \in DOMAIN field_values :
                          field_values[k].label = segs[i] => k <= j
                    /\ created_value[Cardinality({h \in m : h <= i})] =
                          field_values[j].value
            /\ (field_values = TableABC
                  /\ new_value \in {<<"A", "|", "B">>,
                                    <<"A", "|", "B", "|", "Z">>,
                                    <<"Z", "|", "A", "|", "B">>,
                                    <<"A", "|", "Z", "|", "B">>})
                 => created_value = <<PyInt(1), PyInt(2)>>

C19_Witness ==
    /\ xpc = "translated" /\ field_type = "multi-select"
    /\ field_values = TableABC
    /\ new_value = <<"A", "|", "B", "|", "Z">>
    /\ created_value = <<PyInt(1), PyInt(2)>>
    /\ metadata_value = <<PyInt(1), PyInt(2)>>

\* n's breadcrumb: the names of its ancestors below the root and its own
\* name, joined with "|"
Breadcrumb(n) ==
    LET ids == Append(Tail(n.path_ids), n.id)
    IN Join([k \in DOMAIN ids |->
                all_nodes[CHOOSE i \in DOMAIN all_nodes : all_nodes[i].id = ids[k]].name],
            "|")

InputCrumbs ==
    IF no_value \/ new_value = <<>> THEN <<>> ELSE SplitStr(new_value, TermSep)

\* the positions of the breadcrumbs that are keys of the index
MatchedCrumbs == {i \in DOMAIN InputCrumbs : InputCrumbs[i] \in DOMAIN id_for_path}

\* the paths of the first n breadcrumbs, those of unmatched ones left out
RECURSIVE PathsUpTo(_)
PathsUpTo(n) ==
    IF n = 0 THEN <<>>
    ELSE PathsUpTo(n - 1) \o
            (IF n \in MatchedCrumbs THEN id_for_path[InputCrumbs[n]].path ELSE <<>>)

\* C21: when both functions have translated a term field, their results
\* are equal; in leaf mode the result is the leaf ids of the breadcrumbs
\* (the input split on "||") that are keys of the index, in input order;
\* in path mode it is the concatenation of their paths; breadcrumbs that
\* are no key add nothing; None and '' give the empty list.
C21_TermValues ==
    (xpc = "translated" /\ field_type = "term") =>
        /\ metadata_value = created_value
        /\ ~tag_path_terms =>
              /\ Len(created_value) = Cardinality(MatchedCrumbs)
              /\ \A i \in MatchedCrumbs :
                    created_value[Cardinality({h \in MatchedCrumbs : h <= i})] =
                        id_for_path[InputCrumbs[i]].leaf
        /\ tag_path_terms => created_value = PathsUpTo(Len(InputCrumbs))
        /\ MatchedCrumbs = {} => created_value = <<>>
        /\ (no_value \/ new_value = <<>>) => created_value = <<>>

\* a term field in path mode: "a|b||z" against a -> b gives the path of b
\* and nothing for z
C21_Witness ==
    /\ xpc = "translated" /\ field_type = "term" /\ tag_path_terms
    /\ Len(all_nodes) = 2 /\ all_nodes[2].path_ids = <<RootId, 1>>
    /\ new_value = <<"a", "|", "b", "|", "|", "z">>
    /\ metadata_value = <<1, 2>> /\ created_value = <<1, 2>>

\* the tokens of the input of the asset field that start with 'asset:'
AssetTokensOf(value) ==
    SelectSeq(SplitStr(value, <<",">>), LAMBDA x : StartsWith(x, AssetPrefix))

\* C22: when _create_metadata has translated an asset field, the value it
\* stores for the write-back is the list of the comma-separated tokens of
\* the input that start with "asset:".
C22_AssetTokensOnly ==
    (xpc = "translated" /\ field_type = "asset") =>
        metadata_value = PyList(AssetTokensOf(new_value))

-----------------------------------------------------------------------------
(* Claims about the forward translation, checked under SpecForward *)

\* the ids from below the root down to term t, t included
TruePath(t) == Append(Tail(PathIdsOf(remote_nodes, t)), t)

\* C23: a call of _get_full_path_for_term that sent a GET for its term
\* returns a string: the empty breadcrumb when the GET for the term itself
\* was answered 404, else the cached names along the term's path, the name
\* of every ancestor whose GET was answered 404 being empty; and
\* translate_custom_metadata returns a value (a string or None) for the
\* field whatever GETs were answered 404.
C23_NotFoundGivesEmptyName ==
    /\ (f_op.op = "full_path" /\ f_op.terms[1] \in f_op.asked) =>
          LET t == f_op.terms[1]
          IN  /\ f_result.type = "str"
              /\ \A n \in f_op.failed : name_for_term[n] = <<>>
              /\ t \in f_op.failed => f_result.chars = <<>>
              /\ t \notin f_op.failed =>
                    f_result.chars =
                        Join([k \in DOMAIN TruePath(t) |->
                                IF TruePath(t)[k] \in f_op.failed THEN <<>>
                                ELSE name_for_term[TruePath(t)[k]]], "|")
    /\ f_op.op = "translate" =>
          /\ f_result.type \in {"str", "NoneType"}
          /\ \A i \in DOMAIN f_op.terms : f_op.terms[i] \in DOMAIN full_path_for_term

\* the GET for an ancestor was answered 404: the breadcrumb of term 2 below
\* term 1 is "|b"
C23_Witness ==
    /\ f_op.op = "full_path" /\ f_op.terms = <<2>> /\ f_op.failed = {1}
    /\ f_result = PyStr(<<"|", "b">>)

\* C24: an entry of name_for_term, full_path_for_term or taxonomies that is
\* set keeps its value in every step.
C24_CachesKeepEntries ==
    [][/\ \A t \in DOMAIN name_for_term :
            t \in DOMAIN name_for_term' /\ name_for_term'[t] = name_for_term[t]
       /\ \A t \in DOMAIN full_path_for_term :
            /\ t \in DOMAIN full_path_for_term'
            /\ full_path_for_term'[t] = full_path_for_term[t]
       /\ taxonomies' = taxonomies]_vars

\* C30: the reverse translation, in leaf mode, of the string that
\* translate_custom_metadata built for a list of term ids is that list.
C30_ForwardReverseRoundTrip ==
    f_op.op = "reverse" => f_result = PyList(f_op.terms)

-----------------------------------------------------------------------------
(* Claims about the schema cache and merge_metadata, checked under        *)
(* SpecSchemas                                                             *)

\* C25 as stated: over any sequence of translate_custom_metadata,
\* merge_metadata, create_custom_metadata and update calls at most one GET
\* of /v5/schema/<id> is sent per schema id, and none for an id the
\* initial listing returned.
C25_OneGetPerSchema ==
    \A sid \in SchemaIds :
        /\ schema_gets[sid] <= 1
        /\ sid \in listed => schema_gets[sid] = 0

\* C25 amended: per schema id at most one GET of /v5/schema/<id> is
\* answered, an answered GET puts the schema in the cache, no GET is sent
\* for a cached id, and none at all for an id the initial listing returned;
\* a GET that raised is not remembered and the next call sends it again.
C25_OneAnsweredGetPerSchema ==
    [][\A sid \in SchemaIds :
        /\ schema_answered'[sid] <= 1
        /\ schema_answered'[sid] = 1 => sid \in schemas_cache'
        /\ sid \in listed' => schema_gets'[sid] = 0
        /\ sid \in schemas_cache => schema_gets'[sid] = schema_gets[sid]]_vars

\* a merge that found the schema cached by an earlier call whose GET was
\* answered, after a call whose GET raised
C25_Witness ==
    /\ schema_gets[MergeSchema] = 2 /\ schema_answered[MergeSchema] = 1
    /\ "schema:2" \in listed /\ schema_gets["schema:2"] = 0
    /\ MergeSchema \notin listed
    /\ m_op.op = "merge" /\ ~m_op.raised /\ ~m_op.dry_run
    /\ Len(m_requests) = 3 /\ m_requests[3].method = "PUT"

\* C26: merge_metadata with dry_run=True sends GETs only and leaves the
\* remote metadata of source and target as it was, whether or not the
\* target has a record of the schema.
C26_DryRunSendsGetsOnly ==
    [][(m_op'.op = "merge" /\ m_op'.dry_run) =>
        /\ source_md' = source_md /\ target_md' = target_md
        /\ \A i \in DOMAIN m_requests' : m_requests'[i].method = "GET"]_vars

\* a dry run that went through the branch of the PUT: the target has a
\* record lacking a term of the source
C26_Witness ==
    /\ m_op.op = "merge" /\ m_op.dry_run /\ ~m_op.raised
    /\ target_md.exists /\ source_md.exists
    /\ ExtGet(target_md.ext, "u") = <<>> /\ ExtGet(source_md.ext, "u") = <<1>>
    /\ Len(m_requests) = 3

\* the PUT the last operation sent, if it sent one
PutsOf(reqs) == {i \in DOMAIN reqs : reqs[i].method = "PUT"}

\* C27: when the target has a record of the schema, the PUT of
\* merge_metadata holds for every unlimited term field the union of the
\* target's and the source's term ids, no id twice, and a second merge of
\* the same source into the same target sends the same set.
C27_PutIsSetUnion ==
    m_op.op = "merge" =>
        \A i \in PutsOf(m_requests) :
            /\ DOMAIN m_requests[i].ext = {"u"}
            /\ \A key \in DOMAIN m_requests[i].ext :
                LET ids == m_requests[i].ext[key] IN
                /\ Range(ids) = Range(ExtGet(m_op.existing, key))
                                     \cup Range(ExtGet(m_op.adding, key))
                /\ \A a, b \in DOMAIN ids : ids[a] = ids[b] => a = b
                /\ prev_put.sent => prev_put.ext[key] = Range(ids)

\* the second merge of a source holding terms 1 and 2 into a target that
\* the first merge left with both
C27_Witness ==
    /\ m_op.op = "merge" /\ ~m_op.raised /\ prev_put.sent
    /\ ExtGet(m_op.adding, "u") = <<1, 2>>
    /\ m_op.existing = [k \in {"u"} |-> <<2, 1>>]
    /\ PutsOf(m_requests) # {}
    /\ prev_put.ext["u"] = {1, 2} /\ last_put.ext["u"] = {1, 2}

-----------------------------------------------------------------------------
(* Claims about the input labels of update, checked under SpecUpdate *)

\* the keys of the fields of schema sid that an input label names, for a
\* schema of the object's type and an object type that is recognised
Touched(sid) ==
    IF object_type \notin object_types THEN {}
    ELSE UNION {{CachedSchemas[i].fields[j].key :
                    j \in {n \in DOMAIN CachedSchemas[i].fields :
                            CachedSchemas[i].fields[n].label \in Range(metadata_keys)}} :
                i \in {k \in DOMAIN CachedSchemas :
                        /\ CachedSchemas[k].id = sid
                        /\ object_type \in CachedSchemas[k].limit_resource_types}}

\* the schema ids a cached schema or a record of the object can have
AllSchemaIds == Schemas \cup {CachedSchemas[i].id : i \in DOMAIN CachedSchemas}

\* the keys of the record of schema sid that update_custom_metadata fetched
FetchedKeys(sid) ==
    IF sid \in DOMAIN existing_ext THEN DOMAIN existing_ext[sid] ELSE {}

\* C28: update_custom_metadata sends a PUT or POST only for a schema of
\* which an input label names a field; a payload holds the record's keys
\* and the keys of the fields the labels name, nothing else; when no label
\* names a field of the object's type, or the type is not recognised, it
\* sends no PUT or POST and a call whose requests are answered returns True.
C28_WritesOnlyWhatInputTouches ==
    /\ \A i \in DOMAIN sent_payloads :
        /\ Touched(sent_payloads[i].schema_id) # {}
        /\ DOMAIN sent_payloads[i].ext \subseteq
                FetchedKeys(sent_payloads[i].schema_id)
                    \cup Touched(sent_payloads[i].schema_id)
    /\ failedIn = "uc_write" => Touched(Head(payloads)) # {}
    /\ (\A sid \in AllSchemaIds : Touched(sid) = {}) =>
        /\ sent_payloads = <<>>
        /\ failedIn \notin {"uc_create", "uc_write"}
        /\ \A i \in DOMAIN writes : writes[i][2] \in {"asset", "usage"}
        /\ (upc \in {"returned", "propagated"} /\ failedIn = "none" /\ custom)
                => uret = "True"

\* a call for a campaign that has records of both schemas: the input names
\* a field of a schema for posts and one of s1, and s1's record alone is PUT
C28_Witness ==
    /\ object_type = "campaign" /\ metadata_keys = <<"o1", "a1">>
    /\ exCustom = <<"s2", "s1">>
    /\ upc = "returned" /\ uret = "True"
    /\ Len(sent_payloads) = 1
    /\ sent_payloads[1].schema_id = "s1" /\ sent_payloads[1].method = "PUT"
    /\ "k1" \in DOMAIN sent_payloads[1].ext

-----------------------------------------------------------------------------
(* Claims about _prepare_tags, checked under SpecTags *)

\* the last call of update_metadata got past _prepare_tags
TagsPrepared == k_raised \in {"none", "write"}

\* C29 as stated: over any sequence of update_metadata calls at most one
\* POST to /v5/term/ is sent per tag name (the first 64 characters) and
\* none for a tag that starts with `term:`; the result has one term id per
\* input tag, in input order, the id the tag's name is cached under.
C29_OnePostPerTagName ==
    /\ \A name \in TagNames :
        /\ term_posts[name] <= 1
        /\ StartsWith(name, TermPrefix) => term_posts[name] = 0
    /\ TagsPrepared =>
        /\ Len(term_ids) = Len(tags_list)
        /\ \A i \in DOMAIN tags_list :
            IF StartsWith(tags_list[i], TermPrefix)
                THEN term_ids[i] = tags_list[i]
                ELSE /\ PostedName(tags_list[i]) \in DOMAIN tag_cache
                     /\ term_ids[i] = tag_cache[PostedName(tags_list[i])]

\* C29 amended: per tag name at most one POST to /v5/term/ is answered, no
\* POST is sent for a name that is cached or for a tag that starts with
\* `term:`, a cached name keeps its term id, and the result of a call that
\* gets past _prepare_tags has one term id per input tag, in input order,
\* the id the tag's name is cached under; a POST that raised caches nothing
\* and the next call with that name sends it again.
C29_OneAnsweredPostPerTagName ==
    [][/\ \A name \in TagNames :
            /\ term_answered'[name] <= 1
            /\ StartsWith(name, TermPrefix) => term_posts'[name] = 0
            /\ name \in DOMAIN tag_cache =>
                /\ term_posts'[name] = term_posts[name]
                /\ name \in DOMAIN tag_cache'
                /\ tag_cache'[name] = tag_cache[name]
       /\ TagsPrepared' =>
            /\ Len(term_ids') = Len(tags_list')
            /\ \A i \in DOMAIN tags_list' :
                IF StartsWith(tags_list'[i], TermPrefix)
                    THEN term_ids'[i] = tags_list'[i]
                    ELSE /\ PostedName(tags_list'[i]) \in DOMAIN tag_cache'
                         /\ term_ids'[i] = tag_cache'[PostedName(tags_list'[i])]]_vars

\* two tags that share their first 64 characters get one term id from one
\* answered POST, after a call whose POST with that name raised
C29_Witness ==
    /\ tags_list = <<LongTag("a"), LongTag("b")>> /\ k_raised = "none"
    /\ term_ids = <<TermUid(1), TermUid(1)>>
    /\ term_posts[PostedName(LongTag("a"))] = 2
    /\ term_answered[PostedName(LongTag("a"))] = 1

====
